---- MODULE Spec2Model ----
(***************************************************************************)
(* State-machine model of UniswapService (src/uniswap_service.py): the     *)
(* swap lifecycle of execute_swap, the scheduler entry schedule_swap, the  *)
(* router cache, the task map and the pool-monitor map.                    *)
(*                                                                         *)
(* Conventions.                                                            *)
(*  - A call to the chain client (web3) is an outcome record: Ok(v) when   *)
(*    the call returned v, Raised when it raised.                          *)
(*  - Amounts of the request are whole numbers of tokens; base units are   *)
(*    obtained by the same multiplications the code performs, with         *)
(*    WeiPerEther standing for 10^18 and 10^decimals for small decimals.   *)
(*    Float rounding of Python's `/` is not modelled: readable balances    *)
(*    are compared as exact rationals.                                     *)
(*  - One client calls the service; an execute_swap invocation advances    *)
(*    stage by stage (pc), the other public operations are atomic.         *)
(***************************************************************************)
EXTENDS Integers, Sequences, FiniteSets, TLC

(***************************************************************************)
(* Bounds of the model.                                                    *)
(***************************************************************************)
MaxAmount == 2
WeiPerEther == 10
MaxDecimals == 1
MaxLogs == 1
MaxMonitors == 2
MaxReading == 2
MaxResolves == 3
MaxBlockTime == 1
MaxTasks == 2
TicksPerSecond == 2
MaxDelayTicks == 3

(***************************************************************************)
(* Program constants.                                                      *)
(***************************************************************************)
BuyBuildGas == 300000
SellBuildGas == 350000
ApproveGas == 100000
FallbackGas == 500000
FeeTier == 3000
DefaultFeeTier == 3000
RouterDeadlineWindow == 1200
DeadlineWindow == 1200
MinCodeLength == 100
MinThreadCount == 1
MaxThreadCount == 10
MinRunCount == 1
MaxRunCount == 100

(***************************************************************************)
(* Chain-call outcomes.                                                    *)
(***************************************************************************)
Ok(v) == [ok |-> TRUE, val |-> v]
Raised == [ok |-> FALSE]
Outcomes(S) == {Ok(v) : v \in S} \cup {Raised}

NoError == "none"
ZeroAddress == "0x0000000000000000000000000000000000000000"
WethAddress == "0xWETH"

(***************************************************************************)
(* Inputs.                                                                 *)
(***************************************************************************)
Keys == {"key_ok", "key_malformed"}
PrivateKeyValid(k) == k = "key_ok"
WalletOf(k) == "0xWallet"

\* to_checksum_address: defined on well-formed addresses only, maps every
\* spelling of an address to its checksummed spelling.
ChecksumTable ==
  [a \in {"0xt1", "0xT1", "0xt2", "0xT2", "0xwallet", "0xWallet",
          "0x3ae6", "0x68b3", "0xE592"} |->
     CASE a \in {"0xt1", "0xT1"} -> "0xT1"
       [] a \in {"0xt2", "0xT2"} -> "0xT2"
       [] a \in {"0xwallet", "0xWallet"} -> "0xWallet"
       [] a = "0x3ae6" -> "0x3aE6"
       [] OTHER -> a]
IsAddress(a) == a \in DOMAIN ChecksumTable
to_checksum_address(a) == ChecksumTable[a]

SwapTokens == {"0xt1", "not-an-address"}
AllTokens == {"0xt1", "0xT1", "0xt2", "not-an-address"}
Amounts == 1..MaxAmount
TradeTypes == {"buy", "sell", "swap"}
Slippages == {5}
Decimals == 0..MaxDecimals

Pow10(d) == IF d = 0 THEN 1 ELSE IF d = 1 THEN 10 ELSE 100
to_wei(amount) == amount * WeiPerEther

NativeBalances == {0, WeiPerEther - 1, WeiPerEther, MaxAmount * WeiPerEther}
TokenBalances == {0, 1, 9, 10, 20}
Allowances == {0, 1, 20}
GasEstimates == {21000}
GasUsedValues == {21000}
BlockNumbers == {7}
BlockTimestamps == {1000}
TxHashes == {"0xh1", "0xh2"}

(***************************************************************************)
(* ABI tables: the function names each table declares.                     *)
(***************************************************************************)
router_abi ==
  {"exactInputSingle", "exactOutputSingle", "multicall", "unwrapWETH9",
   "refundETH", "WETH9", "factory"}
erc20_abi == {"name", "symbol", "decimals", "balanceOf", "transfer", "approve"}

\* contract.functions.<name>: web3 raises when the ABI declares no such function.
HasFunction(abi, name) == name \in abi

(***************************************************************************)
(* _configure_monad_contracts: the first candidate with more than          *)
(* MinCodeLength bytes of code, else the default (the first candidate).    *)
(***************************************************************************)
potential_routers == <<"0x3ae6", "0x68b3", "0xE592">>
default_router == "0x3ae6"
CodeProbes == Outcomes({0, MinCodeLength, MinCodeLength + 1})
\* A candidate with MinCodeLength bytes of code or more is taken.
CodePresentAtLeast(p) == p.ok /\ p.val >= MinCodeLength

\* if code and len(code) > 100 (lines 101, 113); a probe that raises is
\* logged and the loop goes to the next candidate (104-105, 116-117).
CodePresent(p) == p.ok /\ p.val > MinCodeLength

RECURSIVE FirstWorking(_, _)
FirstWorking(probes, i) ==
  IF i > Len(potential_routers) THEN 0
  ELSE IF CodePresent(probes[i]) THEN i
  ELSE FirstWorking(probes, i + 1)

ConfigureRouter(probes) ==
  LET i == FirstWorking(probes, 1)
  IN IF i = 0 THEN default_router ELSE potential_routers[i]

\* The same loop over the factory candidates (lines 108-117, 128-132).
potential_factories == <<"0x9612", "0x1F98">>
default_factory == "0x9612"

RECURSIVE FirstWorkingFactory(_, _)
FirstWorkingFactory(probes, i) ==
  IF i > Len(potential_factories) THEN 0
  ELSE IF CodePresent(probes[i]) THEN i
  ELSE FirstWorkingFactory(probes, i + 1)

\* What _configure_monad_contracts sets, with the candidates whose code it
\* read (the loop breaks at the first that works) and the branch of lines
\* 121-126 it took.
configure_monad_contracts(router_probes, factory_probes) ==
  LET i == FirstWorking(router_probes, 1)
      k == FirstWorkingFactory(factory_probes, 1)
  IN [uniswap_v3_router |-> ConfigureRouter(router_probes),
      branch |-> IF i = 0 THEN "default" ELSE "working",
      probed |-> IF i = 0 THEN Len(potential_routers) ELSE i,
      uniswap_v3_factory |-> IF k = 0 THEN default_factory
                             ELSE potential_factories[k],
      weth_address |-> ZeroAddress]

VARIABLES
  uniswap_v3_router,   \* self.uniswap_v3_router
  router_cache,        \* self.router_cache: token address -> router
  scheduled_tasks,     \* self.scheduled_tasks: task number -> task_info
  task_counter,        \* self.task_counter
  timers,              \* threading.Timer objects started, by task number
  pool_monitors,       \* self.pool_monitors: monitor number -> monitor_info
  monitor_counter,     \* self.monitor_counter
  pc,                  \* position of the execute_swap invocation in flight
  req,                 \* its arguments
  balance_seen,        \* the balance its balance check read
  weth_address,        \* its local weth_address
  approval,            \* the approval sub-transaction of a sell
  transaction,         \* its local transaction
  tx_hash,             \* the hash its broadcast returned
  receipt,             \* the receipt it obtained
  calls,               \* chain-client calls made by the invocation, in order
  stages,              \* stages the invocation has entered, in order
  swallowed,           \* errors caught inside a stage that let it continue
  raised,              \* every <<stage, error>> raised during the invocation
  build_env,           \* what the build stage of a sell met on the chain
  issued,              \* the monitor and task ids handed out so far,
                       \* in order
  observed,            \* per monitor started and not stopped since: its
                       \* first two successful reads, each with its event
  watch,               \* the id given to stop_pool_monitor, or what the
                       \* last check of a monitor read and did
  loop,                \* the monitor thread: asleep, or in a pass over the
                       \* monitors it found, with what the pass did so far
  arg,                 \* the arguments and chain answers given to a helper
                       \* method that is called on its own
  out,                 \* what the calls of that helper method returned
  inflight,            \* the calls in progress on request threads that run
                       \* beside one another: per thread its position in
                       \* the method and the method's locals
  sched,               \* what the last schedule_swap call computed
  result               \* what the last operation returned

service == <<uniswap_v3_router, router_cache, scheduled_tasks, task_counter,
             timers, pool_monitors, monitor_counter>>
locals == <<req, balance_seen, weth_address, approval, transaction, tx_hash,
            receipt>>
history == <<calls, stages, swallowed, raised, build_env>>
monitoring == <<issued, observed, watch, loop>>
scratch == <<arg, out, inflight>>
vars == <<service, pc, locals, history, sched, monitoring, scratch, result>>

None == [none |-> TRUE]
\* The monitor thread between two passes (time.sleep, lines 1111, 1114).
Asleep == [at |-> "sleep"]
NoRequest == [trade_type |-> "none"]

(***************************************************************************)
(* Result union of the public operations.                                  *)
(***************************************************************************)
Pending(op) == [op |-> op, kind |-> "pending"]
Success(op, data) == [op |-> op, kind |-> "ok", success |-> TRUE, data |-> data]
\* A handler that does not catch: the exception leaves the operation.
Uncaught(op, e, h) == [op |-> op, kind |-> "exception", error |-> e]
\* except Exception as e: return {"success": False, "error": str(e)}.
\* error_hash is the transaction hash the text of str(e) contains, if any.
Failure(op, e, h) ==
  [op |-> op, kind |-> "err", success |-> FALSE, error |-> e, error_hash |-> h]

(***************************************************************************)
(* execute_swap: the stage machine.                                        *)
(***************************************************************************)
StageOrder ==
  <<"balance", "weth", "validate", "build", "gas", "sign", "send", "wait">>

\* A broadcast rejection is retried.
NextPcRetrySend(stage, ok) ==
  CASE stage = "call" -> IF ok THEN "balance" ELSE "done"
    [] stage = "balance" -> IF ok THEN "weth" ELSE "done"
    [] stage = "weth" -> IF ok THEN "validate" ELSE "done"
    [] stage = "validate" -> "build"
    [] stage = "build" -> IF ok THEN "gas" ELSE "done"
    [] stage = "gas" -> "sign"
    [] stage = "sign" -> IF ok THEN "send" ELSE "done"
    [] stage = "send" -> IF ok THEN "wait" ELSE "send"
    [] OTHER -> "done"

\* A failed signature sends the lifecycle back to rebuild the transaction.
NextPcRebuild(stage, ok) ==
  CASE stage = "call" -> IF ok THEN "balance" ELSE "done"
    [] stage = "balance" -> IF ok THEN "weth" ELSE "done"
    [] stage = "weth" -> IF ok THEN "validate" ELSE "done"
    [] stage = "validate" -> "build"
    [] stage = "build" -> IF ok THEN "gas" ELSE "done"
    [] stage = "gas" -> "sign"
    [] stage = "sign" -> IF ok THEN "send" ELSE "build"
    [] stage = "send" -> IF ok THEN "wait" ELSE "done"
    [] OTHER -> "done"

\* Where the straight-line code of execute_swap goes after a stage: on to
\* the next one, or to the outer except clause (done).  The router
\* validation and the gas estimate catch their own errors and go on.
NextPc(stage, ok) ==
  CASE stage = "call" -> IF ok THEN "balance" ELSE "done"
    [] stage = "balance" -> IF ok THEN "weth" ELSE "done"
    [] stage = "weth" -> IF ok THEN "validate" ELSE "done"
    [] stage = "validate" -> "build"
    [] stage = "build" -> IF ok THEN "gas" ELSE "done"
    [] stage = "gas" -> "sign"
    [] stage = "sign" -> IF ok THEN "send" ELSE "done"
    [] stage = "send" -> IF ok THEN "wait" ELSE "done"
    [] OTHER -> "done"

\* The outer except clause of execute_swap.
ExecuteSwapExcept(e, h) == Failure("execute_swap", e, h)

\* End of a stage: err = NoError hands over, anything else is raised.
Advance(stage, err, made, caught) ==
  LET next == NextPc(stage, err = NoError)
  IN /\ pc' = next
     /\ calls' = calls \o made
     /\ swallowed' = swallowed \cup caught
     /\ raised' = raised
                  \cup {<<stage, e>> : e \in caught}
                  \cup (IF err = NoError THEN {} ELSE {<<stage, err>>})
     /\ stages' = IF next = "done" THEN stages ELSE Append(stages, next)
     /\ result' = IF next = "done" /\ err # NoError
                  THEN ExecuteSwapExcept(err, "none")
                  ELSE result

(***************************************************************************)
(* Balance precondition (lines 757-773).                                   *)
(***************************************************************************)
\* The native balance is read as if it were in whole ether.
InsufficientNativeEtherUnits(mon_balance, amount_in_wei) ==
  mon_balance * WeiPerEther < amount_in_wei

\* if mon_balance < amount_in_wei: raise
InsufficientNative(mon_balance, amount_in_wei) == mon_balance < amount_in_wei

\* readable_balance = balance / 10**decimals; if token_balance < amount_in: raise
InsufficientToken(balance, decimals, amount_in) ==
  balance < amount_in * Pow10(decimals)

\* int(amount_in * (10 ** decimals))
ToBaseUnits(amount_in, decimals) == amount_in * Pow10(decimals)

\* Lines 740-752: the key is turned into an account, the token address into
\* its checksummed form.
ValidateRequest(k, t) ==
  IF ~PrivateKeyValid(k) THEN "invalid_private_key"
  ELSE IF ~IsAddress(t) THEN "invalid_token_address"
  ELSE NoError

ExecuteSwapCall ==
  /\ pc = "idle"
  /\ \E k \in Keys, t \in SwapTokens, a \in Amounts, tt \in TradeTypes,
        s \in Slippages :
       LET err == ValidateRequest(k, t)
           next == NextPc("call", err = NoError)
       IN /\ req' = [private_key |-> k, token_address |-> t, amount_in |-> a,
                     trade_type |-> tt, slippage |-> s]
          /\ pc' = next
          /\ stages' = IF next = "done" THEN <<>> ELSE <<next>>
          /\ raised' = IF err = NoError THEN {} ELSE {<<"call", err>>}
          /\ result' = IF next = "done" THEN ExecuteSwapExcept(err, "none")
                       ELSE Pending("execute_swap")
  /\ calls' = <<>>
  /\ swallowed' = {}
  /\ build_env' = None
  /\ balance_seen' = None
  /\ weth_address' = "unset"
  /\ approval' = "none"
  /\ transaction' = None
  /\ tx_hash' = "none"
  /\ receipt' = None
  /\ UNCHANGED <<service, sched, monitoring, scratch>>

BalanceCheck ==
  /\ pc = "balance"
  /\ \/ /\ req.trade_type = "buy"
        /\ \E bal \in Outcomes(NativeBalances) :
             LET err == IF ~bal.ok THEN "rpc_error"
                        ELSE IF InsufficientNative(bal.val, to_wei(req.amount_in))
                             THEN "insufficient_mon"
                             ELSE NoError
             IN /\ balance_seen' =
                     IF bal.ok THEN [kind |-> "native", balance |-> bal.val,
                                     decimals |-> 0]
                     ELSE None
                /\ Advance("balance", err, <<"get_balance">>, {})
     \/ /\ req.trade_type # "buy"
        /\ \E bal \in Outcomes(TokenBalances), d \in Outcomes(Decimals) :
             \* get_token_balance: balanceOf, then decimals; a failure of
             \* either comes back as a failure result and is raised here
             LET read == bal.ok /\ d.ok
                 err == IF ~read THEN "token_balance_failed"
                        ELSE IF InsufficientToken(bal.val, d.val, req.amount_in)
                             THEN "insufficient_token"
                             ELSE NoError
             IN /\ (~bal.ok => d = Raised)
                /\ balance_seen' =
                     IF read THEN [kind |-> "token", balance |-> bal.val,
                                   decimals |-> d.val]
                     ELSE None
                /\ Advance("balance", err,
                           IF bal.ok THEN <<"balanceOf", "decimals">>
                           ELSE <<"balanceOf">>, {})
  /\ UNCHANGED <<service, req, weth_address, approval, transaction, tx_hash,
                 receipt, build_env, sched, monitoring, scratch>>

(***************************************************************************)
(* get_weth_address (lines 712-734) and the native-token branch            *)
(* (lines 780-825).  self.weth_address is the zero address and             *)
(* self.use_native_token is True (lines 139-140).                          *)
(***************************************************************************)
configured_weth_address == ZeroAddress
use_native_token == TRUE

\* A failed read of WETH9 falls back to a wrapped-native address.
GetWethFallbackWrapped(weth9) ==
  IF HasFunction(router_abi, "WETH9") /\ weth9.ok THEN weth9.val
  ELSE WethAddress

get_weth_address(weth9) ==
  IF HasFunction(router_abi, "WETH9") /\ weth9.ok THEN weth9.val
  ELSE configured_weth_address

ResolveWeth ==
  /\ pc = "weth"
  /\ \E weth9 \in Outcomes({ZeroAddress, WethAddress}), blk \in BOOLEAN :
       LET weth == get_weth_address(weth9)
           native == use_native_token /\ weth = ZeroAddress
           \* buy: the deadline reads the latest block, then router_contract is
           \* used before its assignment at line 828 (UnboundLocalError), caught
           \* at line 817; sell: raised at line 823
           err == IF ~native THEN NoError
                  ELSE IF req.trade_type = "buy"
                       THEN (IF blk THEN "native_unsupported" ELSE "rpc_error")
                       ELSE "sell_native_unsupported"
           made == IF native /\ req.trade_type = "buy"
                   THEN <<"WETH9", "get_block">> ELSE <<"WETH9">>
       IN /\ (~(native /\ req.trade_type = "buy") => blk)
          /\ weth_address' = weth
          /\ Advance("weth", err, made,
                     IF weth9.ok THEN {} ELSE {"weth9_read"})
  /\ UNCHANGED <<service, req, balance_seen, approval, transaction, tx_hash,
                 receipt, build_env, sched, monitoring, scratch>>

(***************************************************************************)
(* Router validation (lines 833-852): the factory read and the bytecode    *)
(* check are wrapped in try/except that only logs.                         *)
(***************************************************************************)
RouterCodeInvalid(code) == code.val < MinCodeLength

ValidateRouter ==
  /\ pc = "validate"
  /\ \E fac \in BOOLEAN, code \in CodeProbes :
       LET errs == (IF fac THEN {} ELSE {"factory_read"})
                   \cup (IF ~code.ok THEN {"get_code"}
                         ELSE IF RouterCodeInvalid(code) THEN {"router_code"}
                         ELSE {})
       IN Advance("validate", NoError, <<"factory", "get_code">>, errs)
  /\ UNCHANGED <<service, locals, build_env, sched, monitoring, scratch>>

(***************************************************************************)
(* Transaction build (lines 855-986).  Any exception inside is re-raised   *)
(* as a build failure (line 986).                                          *)
(***************************************************************************)
\* The minimum is what the slippage leaves of a hundred.
AmountOutBySlippage(slippage) == 100 - slippage

\* slippage_multiplier = 1 - (slippage / 100) is computed and not used;
\* amount_out_minimum = 0 (lines 863-866)
amount_out_minimum(slippage) == 0

SwapParams(token_in, token_out, recipient, deadline, amount_in_wei, min_out) ==
  [tokenIn |-> token_in, tokenOut |-> token_out, fee |-> FeeTier,
   recipient |-> recipient, deadline |-> deadline, amountIn |-> amount_in_wei,
   amountOutMinimum |-> min_out, sqrtPriceLimitX96 |-> 0]

\* The buy transaction of lines 870-896, for request r.
BuyTransaction(r, weth, router, ts) ==
  LET wallet == WalletOf(r.private_key)
      amount_in_wei == to_wei(r.amount_in)
  IN [function |-> "exactInputSingle", to |-> router, from |-> wallet,
      value |-> amount_in_wei, gas |-> BuyBuildGas,
      params |-> SwapParams(weth, to_checksum_address(r.token_address), wallet,
                            ts + DeadlineWindow, amount_in_wei,
                            amount_out_minimum(r.slippage))]

\* The sell transaction of lines 941-975, for request r and token decimals d.
SellTransaction(r, weth, router, ts, d) ==
  LET wallet == WalletOf(r.private_key)
      amount_in_wei == ToBaseUnits(r.amount_in, d)
  IN [function |-> "multicall", to |-> router, from |-> wallet, value |-> 0,
      gas |-> SellBuildGas,
      params |-> SwapParams(to_checksum_address(r.token_address), weth, wallet,
                            ts + DeadlineWindow, amount_in_wei,
                            amount_out_minimum(r.slippage))]

BuyCalls == <<"get_block", "encodeABI", "gas_price", "get_transaction_count">>
ApproveCalls ==
  <<"gas_price", "get_transaction_count", "sign_approve", "send_approve",
    "wait_approve">>
SellCalls(need_approve) ==
  <<"get_block", "decimals", "allowance">>
  \o (IF need_approve THEN ApproveCalls ELSE <<>>)
  \o <<"encodeABI", "encodeABI", "gas_price", "get_transaction_count">>

\* Of the calls made, the last one raised when f > 0: did call `name` return?
Returned(made, f, name) ==
  /\ name \in {made[i] : i \in 1..Len(made)}
  /\ (f = 0 \/ made[Len(made)] # name)

\* if allowance < amount_in_wei: approve first
NeedsApproval(allowance, amount_in_wei) == allowance < amount_in_wei

BuildBuy ==
  /\ req.trade_type = "buy"
  /\ \E ts \in BlockTimestamps, f \in 0..Len(BuyCalls) :
       LET tx == BuyTransaction(req, weth_address, uniswap_v3_router, ts)
       IN /\ transaction' = IF f = 0 THEN tx ELSE None
          /\ approval' = approval
          /\ build_env' = build_env
          /\ Advance("build", IF f = 0 THEN NoError ELSE "build_failed",
                     IF f = 0 THEN BuyCalls ELSE SubSeq(BuyCalls, 1, f), {})

\* Not a buy: the token's decimals are read; a sell reads the allowance
\* through token_contract.functions.allowance, any other trade type is
\* refused (line 978).
BuildSell ==
  /\ req.trade_type # "buy"
  /\ \E ts \in BlockTimestamps, d \in Decimals, al \in Allowances,
        st \in {0, 1} :
       LET amount_in_wei == ToBaseUnits(req.amount_in, d)
           bound == req.trade_type = "sell"
                    /\ HasFunction(erc20_abi, "allowance")
           need == NeedsApproval(al, amount_in_wei)
           all == SellCalls(need)
           limit == IF bound THEN Len(all) ELSE 2
           tx == SellTransaction(req, weth_address, uniswap_v3_router, ts, d)
       IN \E f \in 0..limit :
            LET built == bound /\ f = 0
                made == IF f = 0 THEN SubSeq(all, 1, limit)
                        ELSE SubSeq(all, 1, f)
                waited == Returned(made, f, "wait_approve")
            IN /\ transaction' = IF built THEN tx ELSE None
               \* the approval's receipt is awaited, its status is not read
               /\ approval' = IF waited
                              THEN (IF st = 1 THEN "status1" ELSE "status0")
                              ELSE IF Returned(made, f, "send_approve")
                                   THEN "unconfirmed"
                                   ELSE "none"
               /\ build_env' = [trade_type |-> req.trade_type,
                                 approval_needed |-> need,
                                 call_raised |-> f > 0]
               /\ Advance("build", IF built THEN NoError ELSE "build_failed",
                          made, {})

BuildTransaction ==
  /\ pc = "build"
  /\ (BuildBuy \/ BuildSell)
  /\ UNCHANGED <<service, req, balance_seen, weth_address, tx_hash, receipt,
                 sched, monitoring, scratch>>

(***************************************************************************)
(* Gas estimate (lines 988-998).                                           *)
(***************************************************************************)
\* The gas limit of the build is kept when the estimate fails.
GasKeptOnFailure(tx, est) ==
  IF est.ok THEN [tx EXCEPT !.gas = est.val] ELSE tx

\* transaction['gas'] = estimated_gas, or 500000 when estimate_gas raised
GasAfterEstimate(tx, est) ==
  [tx EXCEPT !.gas = IF est.ok THEN est.val ELSE FallbackGas]

EstimateGas ==
  /\ pc = "gas"
  /\ \E est \in Outcomes(GasEstimates) :
       /\ transaction' = GasAfterEstimate(transaction, est)
       /\ Advance("gas", NoError, <<"estimate_gas">>,
                  IF est.ok THEN {} ELSE {"estimate_gas"})
  /\ UNCHANGED <<service, req, balance_seen, weth_address, approval, tx_hash,
                 receipt, build_env, sched, monitoring, scratch>>

(***************************************************************************)
(* Sign (lines 1000-1012) and broadcast (lines 1014-1020).                 *)
(***************************************************************************)
SignTransaction ==
  /\ pc = "sign"
  /\ \E ok \in BOOLEAN :
       Advance("sign", IF ok THEN NoError ELSE "sign_failed",
               <<"sign_transaction">>, {})
  /\ UNCHANGED <<service, locals, build_env, sched, monitoring, scratch>>

SendTransaction ==
  /\ pc = "send"
  /\ \E sent \in Outcomes(TxHashes) :
       /\ tx_hash' = IF sent.ok THEN sent.val ELSE tx_hash
       /\ Advance("send", IF sent.ok THEN NoError ELSE "send_failed",
                  <<"send_raw_transaction">>, {})
  /\ UNCHANGED <<service, req, balance_seen, weth_address, approval,
                 transaction, receipt, build_env, sched, monitoring, scratch>>

(***************************************************************************)
(* Receipt wait and outcome (lines 1022-1088).                             *)
(***************************************************************************)
Receipts ==
  [status : {0, 1}, blockNumber : BlockNumbers, gasUsed : GasUsedValues,
   logs : 0..MaxLogs,
   price_field : {"effectiveGasPrice", "gasPrice", "none"}]

\* receipt.effectiveGasPrice if hasattr(receipt, 'effectiveGasPrice')
\* else receipt.gasPrice: an AttributeError when the receipt has neither.
PriceReadable(rc) == rc.price_field # "none"

\* The data of the success result (lines 1045-1055); parsed is the number
\* of log entries appended before the log loop ended or raised.
SwapSuccessData(hash, rc, parsed) ==
  [tx_hash |-> hash, block_number |-> rc.blockNumber, gas_used |-> rc.gasUsed,
   status |-> "success", logs |-> parsed]

WaitReceipt ==
  /\ pc = "wait"
  /\ pc' = NextPc("wait", TRUE)
  /\ stages' = stages
  /\ \/ \* wait_for_transaction_receipt raises TimeExhausted, whose text names
        \* the transaction hash
        /\ receipt' = None
        /\ calls' = Append(calls, "wait_for_transaction_receipt")
        /\ result' = ExecuteSwapExcept("confirm_failed:timeout", tx_hash)
     \/ \* it raises another error of the RPC
        /\ receipt' = None
        /\ calls' = Append(calls, "wait_for_transaction_receipt")
        /\ result' = ExecuteSwapExcept("confirm_failed:rpc_error", "none")
     \/ \E rc \in Receipts, parsed \in 0..MaxLogs :
          /\ rc.status = 1
          /\ parsed <= rc.logs
          /\ receipt' = rc
          /\ calls' = Append(calls, "wait_for_transaction_receipt")
          /\ result' = IF PriceReadable(rc)
                       THEN Success("execute_swap",
                                    SwapSuccessData(tx_hash, rc, parsed))
                       ELSE ExecuteSwapExcept("confirm_failed:receipt_field",
                                              "none")
     \/ \E rc \in Receipts, diag \in {"get_transaction_raised",
                                      "eth_call_raised", "eth_call_returned"} :
          \* status 0: the transaction is fetched and replayed with eth_call,
          \* both read-only, then the failure is raised
          /\ rc.status = 0
          /\ rc.logs = 0
          /\ rc.price_field = "effectiveGasPrice"
          /\ receipt' = rc
          /\ calls' = calls \o <<"wait_for_transaction_receipt">>
                      \o (IF diag = "get_transaction_raised"
                          THEN <<"get_transaction">>
                          ELSE <<"get_transaction", "eth_call">>)
          /\ result' = ExecuteSwapExcept(
                         IF diag = "eth_call_raised"
                         THEN "confirm_failed:reverted_with_reason"
                         ELSE "confirm_failed:reverted", "none")
  /\ raised' = IF result'.kind = "err"
               THEN raised \cup {<<"wait", result'.error>>}
               ELSE raised
  /\ UNCHANGED <<service, req, balance_seen, weth_address, approval,
                 transaction, tx_hash, swallowed, build_env, sched, monitoring, scratch>>

\* The caller takes the result; the invocation's locals are gone.
Return ==
  /\ pc \in {"done", "polled"}
  /\ pc' = "idle"
  /\ req' = NoRequest
  /\ balance_seen' = None
  /\ weth_address' = "unset"
  /\ approval' = "none"
  /\ transaction' = None
  /\ tx_hash' = "none"
  /\ receipt' = None
  /\ calls' = <<>>
  /\ stages' = <<>>
  /\ swallowed' = {}
  /\ raised' = {}
  /\ build_env' = None
  /\ result' = Pending("none")
  /\ sched' = None
  /\ watch' = None
  /\ UNCHANGED <<service, issued, observed, loop, scratch>>

(***************************************************************************)
(* discover_universal_router (lines 341-380): a cached entry is returned,  *)
(* otherwise the configured router is cached under the token address.      *)
(***************************************************************************)
\* The cache holds the router of the token asked for last, and no other.
DiscoverEvicting(cache, token_address) ==
  (token_address :> to_checksum_address(uniswap_v3_router))

discover_universal_router(cache, token_address) ==
  IF token_address \in DOMAIN cache THEN cache
  ELSE cache @@ (token_address :> to_checksum_address(uniswap_v3_router))

\* Every call takes the discovery path, cached or not.
LookupUncached(cache, token_address) ==
  [router |-> to_checksum_address(uniswap_v3_router),
   cache |-> cache @@
               (token_address :> to_checksum_address(uniswap_v3_router)),
   path |-> "discovery"]

\* The same method with what it returns: the router, the cache it leaves
\* and the path it took (line 345: the cache; lines 348-375: discovery).
RouterLookup(cache, token_address) ==
  IF token_address \in DOMAIN cache
  THEN [router |-> cache[token_address], cache |-> cache, path |-> "cache"]
  ELSE [router |-> to_checksum_address(uniswap_v3_router),
        cache |-> cache @@
                    (token_address :> to_checksum_address(uniswap_v3_router)),
        path |-> "discovery"]

\* Token addresses given to discover_universal_router called on its own.
\* A string that is no address is cached like any other: the contract
\* object built from it is inside try/except: pass (lines 351-361).
RegistryTokens == {"0xT1", "0xT2", "not-an-address"}

DiscoverUniversalRouter ==
  /\ pc = "idle"
  /\ Len(out) < MaxResolves
  /\ \E token_address \in RegistryTokens :
       LET found == RouterLookup(router_cache, token_address)
       IN /\ router_cache' = found.cache
          /\ out' = Append(out, [token_address |-> token_address,
                                 router |-> found.router,
                                 path |-> found.path,
                                 wrote |-> found.cache # router_cache])
  /\ UNCHANGED <<uniswap_v3_router, scheduled_tasks, task_counter, timers,
                 pool_monitors, monitor_counter, pc, locals, history, sched,
                 monitoring, arg, inflight,
                 result>>

\* An operation other than execute_swap returns r.
Finish(r) ==
  /\ pc' = "done"
  /\ result' = r
  /\ UNCHANGED <<locals, history>>

(***************************************************************************)
(* get_token_info (lines 461-504), get_token_balance (lines 506-547).      *)
(***************************************************************************)
IsChecksummed(a) == IsAddress(a) /\ to_checksum_address(a) = a

GetTokenInfo ==
  /\ pc = "idle"
  /\ \E t \in AllTokens, d \in Decimals, f \in 0..3 :
       IF ~IsAddress(t)
       THEN /\ Finish(Failure("get_token_info", "invalid_token_address", "none"))
            /\ router_cache' = router_cache
       ELSE IF f > 0   \* name, symbol or decimals raised
       THEN /\ Finish(Failure("get_token_info", "rpc_error", "none"))
            /\ router_cache' = router_cache
       ELSE LET cache == discover_universal_router(router_cache,
                                                   to_checksum_address(t))
            IN /\ router_cache' = cache
               /\ Finish(Success("get_token_info",
                    [address |-> t, decimals |-> d,
                     universal_router |-> cache[to_checksum_address(t)]]))
  /\ UNCHANGED <<uniswap_v3_router, scheduled_tasks, task_counter, timers,
                 pool_monitors, monitor_counter, sched, monitoring, scratch>>

Wallets == {"0xWallet", "0xwallet", "not-an-address"}

\* The result of get_token_balance.  balanceOf is called with the wallet
\* address as given (line 527), which web3 refuses unless it is checksummed.
get_token_balance(t, w, bal, d) ==
  IF ~IsAddress(t) \/ ~IsAddress(w)
  THEN Failure("get_token_balance", "invalid_address", "none")
  ELSE IF ~IsChecksummed(w) \/ ~bal.ok \/ ~d.ok
  THEN Failure("get_token_balance", "rpc_error", "none")
  ELSE Success("get_token_balance",
               [balance |-> bal.val, decimals |-> d.val,
                readable_balance |-> <<bal.val, Pow10(d.val)>>])

GetTokenBalance ==
  /\ pc = "idle"
  /\ \E t \in AllTokens, w \in Wallets, bal \in Outcomes(TokenBalances),
        d \in Outcomes(Decimals) :
       Finish(get_token_balance(t, w, bal, d))
  /\ UNCHANGED <<service, sched, monitoring, scratch>>

(***************************************************************************)
(* Pool monitors (lines 1154-1247).                                        *)
(***************************************************************************)
Thresholds == {1}

\* Balances a check of a monitor can read, in the unit of the threshold.
Readings == 0..MaxReading

\* Every monitor gets the id of the least position free in the map.
NewMonitorIdByCount(counter, monitors) == Cardinality(DOMAIN monitors)

\* monitor_id = f"monitor_{self.monitor_counter}"
NewMonitorId(counter, monitors) == counter

StartPoolMonitor ==
  /\ pc = "idle"
  /\ monitor_counter < MaxMonitors
  /\ \E t \in {"0xT1"}, w \in {"0xWallet"}, th \in Thresholds,
        auto \in BOOLEAN :
       LET monitor_id == NewMonitorId(monitor_counter, pool_monitors)
           monitor_info == [token_address |-> t, wallet_address |-> w,
                            threshold |-> th, auto_trade |-> auto,
                            active |-> TRUE, last_balance |-> 0]
       IN /\ monitor_counter' = monitor_counter + 1
          /\ pool_monitors' =
               [m \in DOMAIN pool_monitors \cup {monitor_id} |->
                  IF m = monitor_id THEN monitor_info ELSE pool_monitors[m]]
          /\ issued' = Append(issued,
                              [kind |-> "monitor", id |-> monitor_id])
          /\ observed' =
               [m \in DOMAIN observed \cup {monitor_id} |->
                  IF m = monitor_id THEN <<>> ELSE observed[m]]
          /\ Finish(Success("start_pool_monitor",
                            [monitor_id |-> monitor_id, status |-> "started"]))
  /\ UNCHANGED <<uniswap_v3_router, router_cache, scheduled_tasks,
                 task_counter, timers, sched, watch, loop, scratch>>

\* Every id counts as a live monitor.
AnyMonitor(monitors, monitor_id) == TRUE

\* if monitor_id in self.pool_monitors
LiveMonitor(monitors, monitor_id) == monitor_id \in DOMAIN monitors

\* The monitor and every monitor started before it are removed.
RemoveUpTo(monitors, monitor_id) ==
  [m \in {n \in DOMAIN monitors : n > monitor_id} |-> monitors[m]]

\* del self.pool_monitors[monitor_id]
RemoveMonitor(monitors, monitor_id) ==
  [m \in DOMAIN monitors \ {monitor_id} |-> monitors[m]]

StopPoolMonitor ==
  /\ pc = "idle"
  /\ \E monitor_id \in 0..MaxMonitors :
       /\ watch' = [op |-> "stop", monitor_id |-> monitor_id]
       /\ observed' = [m \in DOMAIN observed \ {monitor_id} |-> observed[m]]
       /\ IF LiveMonitor(pool_monitors, monitor_id)
          THEN /\ pool_monitors' = RemoveMonitor(pool_monitors, monitor_id)
               /\ Finish(Success("stop_pool_monitor",
                           [monitor_id |-> monitor_id, status |-> "stopped"]))
          ELSE /\ pool_monitors' = pool_monitors
               /\ Finish(Failure("stop_pool_monitor", "monitor_not_found",
                                 "none"))
  /\ UNCHANGED <<uniswap_v3_router, router_cache, scheduled_tasks,
                 task_counter, timers, monitor_counter, sched, issued, loop,
                 scratch>>

ActiveMonitors ==
  {m \in DOMAIN pool_monitors : pool_monitors[m].active}

\* The fields of a monitor that get_pool_monitors reports (lines 1225-1232).
PublicFields(monitor_info) ==
  [token_address |-> monitor_info.token_address,
   wallet_address |-> monitor_info.wallet_address,
   threshold |-> monitor_info.threshold,
   auto_trade |-> monitor_info.auto_trade,
   last_balance |-> monitor_info.last_balance]

get_pool_monitors(monitors) ==
  [m \in {n \in DOMAIN monitors : monitors[n].active} |->
     PublicFields(monitors[m])]

GetPoolMonitors ==
  /\ pc = "idle"
  /\ LET active_monitors == get_pool_monitors(pool_monitors)
     IN Finish(Success("get_pool_monitors",
                       [monitors |-> active_monitors,
                        total_count |-> Cardinality(DOMAIN active_monitors)]))
  /\ UNCHANGED <<service, sched, monitoring, scratch>>

(***************************************************************************)
(* The monitor thread (lines 1100-1152).  Each pass of its loop checks     *)
(* every active monitor; one check is one step here.  A check reads and    *)
(* writes the monitor's own record only, which no stage of an operation in *)
(* flight reads, so a check between two stages has the effect of the same  *)
(* check before the operation: checks are taken between operations.        *)
(***************************************************************************)
Abs(x) == IF x < 0 THEN -x ELSE x

\* The balance moved by the threshold or more.
ReachesThreshold(current_balance, last_balance, threshold) ==
  Abs(current_balance - last_balance) >= threshold

\* abs(current_balance - last_balance) > monitor_info.get('threshold', 0.001)
BalanceChanged(current_balance, last_balance, threshold) ==
  Abs(current_balance - last_balance) > threshold

CheckPoolStatus ==
  /\ pc \in {"idle", "polled"}
  /\ \E monitor_id \in DOMAIN pool_monitors, bal \in Outcomes(Readings) :
       LET monitor_info == pool_monitors[monitor_id]
           balance_result ==
             IF IsChecksummed(monitor_info.wallet_address) THEN bal ELSE Raised
           last_balance == monitor_info.last_balance
           changed == /\ balance_result.ok
                      /\ BalanceChanged(balance_result.val, last_balance,
                                        monitor_info.threshold)
       IN /\ monitor_info.active
          /\ pool_monitors' =
               IF changed
               THEN [pool_monitors EXCEPT
                       ![monitor_id].last_balance = balance_result.val]
               ELSE pool_monitors
          /\ observed' =
               IF balance_result.ok /\ Len(observed[monitor_id]) < 2
               THEN [observed EXCEPT ![monitor_id] =
                       Append(@, [read |-> balance_result.val,
                                  event |-> changed])]
               ELSE observed
          /\ watch' = [op |-> "check", monitor_id |-> monitor_id,
                       read |-> balance_result,
                       last_balance |-> last_balance,
                       before |-> observed[monitor_id],
                       event |-> changed,
                       auto_trade_run |-> changed /\ monitor_info.auto_trade]
  /\ pc' = "polled"
  /\ UNCHANGED <<uniswap_v3_router, router_cache, scheduled_tasks,
                 task_counter, timers, monitor_counter, locals, history,
                 sched, issued, loop, scratch, result>>

(***************************************************************************)
(* The loop of the monitor thread (monitor_pools, lines 1105-1114): a pass *)
(* takes the list of the monitors in the map, checks those that are        *)
(* active one after the other, then sleeps.  The thread runs beside the    *)
(* operations, so its steps do not wait for an operation to return.        *)
(***************************************************************************)
RECURSIVE InOrder(_)
\* list(self.pool_monitors.items()): the entries in insertion order, which
\* is the order of the ids.
InOrder(ids) ==
  IF ids = {} THEN <<>>
  ELSE LET first == CHOOSE m \in ids : \A n \in ids : m <= n
       IN <<first>> \o InOrder(ids \ {first})

\* A check that met a fault ends the pass: the monitors left are not checked.
AbortOnFault(left, fault) == IF fault THEN <<>> ELSE Tail(left)

\* _check_pool_status returns whether or not it met a fault (its own
\* try/except, lines 1122, 1141), and the for loop goes to the next entry.
NextInPass(left, fault) == Tail(left)

MonitorPoolsBegin ==
  /\ loop.at = "sleep"
  /\ loop' = [at |-> "pass", found |-> DOMAIN pool_monitors,
              left |-> InOrder(DOMAIN pool_monitors),
              checked |-> {}, faulted |-> {}]
  /\ UNCHANGED <<service, pc, locals, history, sched, issued, observed,
                 watch, scratch, result>>

MonitorPoolsCheck ==
  /\ loop.at = "pass"
  /\ loop.left # <<>>
  /\ LET monitor_id == Head(loop.left)
     IN IF ~LiveMonitor(pool_monitors, monitor_id)
        THEN \* stopped since the pass began: its active flag is cleared
             /\ loop' = [loop EXCEPT !.left = Tail(@)]
             /\ pool_monitors' = pool_monitors
        ELSE \E bal \in Outcomes(Readings) :
               LET monitor_info == pool_monitors[monitor_id]
                   balance_result ==
                     IF IsChecksummed(monitor_info.wallet_address)
                     THEN bal ELSE Raised
                   changed ==
                     /\ balance_result.ok
                     /\ BalanceChanged(balance_result.val,
                                       monitor_info.last_balance,
                                       monitor_info.threshold)
               IN /\ pool_monitors' =
                       IF changed
                       THEN [pool_monitors EXCEPT
                               ![monitor_id].last_balance = balance_result.val]
                       ELSE pool_monitors
                  /\ loop' = [loop EXCEPT
                       !.left = NextInPass(@, ~balance_result.ok),
                       !.checked = @ \cup {monitor_id},
                       !.faulted = IF balance_result.ok THEN @
                                   ELSE @ \cup {monitor_id}]
  /\ UNCHANGED <<uniswap_v3_router, router_cache, scheduled_tasks,
                 task_counter, timers, monitor_counter, pc, locals, history,
                 sched, issued, observed, watch, scratch,
                 result>>

\* time.sleep(1) at the end of a pass.
MonitorPoolsSleep ==
  /\ loop.at = "pass"
  /\ loop.left = <<>>
  /\ loop' = Asleep
  /\ UNCHANGED <<service, pc, locals, history, sched, issued, observed,
                 watch, scratch, result>>

monitor_pools == MonitorPoolsBegin \/ MonitorPoolsCheck \/ MonitorPoolsSleep

(***************************************************************************)
(* schedule_swap (lines 549-710).                                          *)
(*                                                                         *)
(* The schedule time is a string: datetime.fromisoformat refuses a         *)
(* malformed one; one with a zone (or a trailing Z) parses to an aware     *)
(* datetime, whose comparison with the naive datetime.now() raises; a      *)
(* naive one is diff ticks after now (TicksPerSecond ticks to a second).   *)
(***************************************************************************)
ScheduleTimes ==
  {[kind |-> "malformed", diff |-> 0], [kind |-> "aware", diff |-> MaxDelayTicks]}
  \cup {[kind |-> "naive", diff |-> n] : n \in (0 - 1)..MaxDelayTicks}
ThreadCounts == {MinThreadCount - 1, MinThreadCount, MaxThreadCount,
                 MaxThreadCount + 1}
RunCounts == {MinRunCount - 1, MinRunCount, MaxRunCount, MaxRunCount + 1}

\* Only a schedule time before now is refused.
ScheduleTimePassedStrict(diff) == diff < 0

\* if schedule_datetime <= current_time: raise
ScheduleTimePassed(diff) == diff <= 0

\* int((schedule_datetime - current_time).total_seconds()): truncation
\* towards zero
DelaySeconds(diff) ==
  IF diff >= 0 THEN diff \div TicksPerSecond
  ELSE 0 - ((0 - diff) \div TicksPerSecond)

\* The thread count may exceed its upper bound by one.
ScheduleValidationLoose(when, thread_count, run_count) ==
  IF when.kind # "naive" \/ ScheduleTimePassed(when.diff)
  THEN "invalid_schedule_time"
  ELSE IF thread_count < MinThreadCount \/ thread_count > MaxThreadCount + 1
  THEN "invalid_thread_count"
  ELSE IF run_count < MinRunCount \/ run_count > MaxRunCount
  THEN "invalid_run_count"
  ELSE NoError

\* Lines 568-588: the time, then the thread and run counts.
ScheduleValidation(when, thread_count, run_count) ==
  IF when.kind # "naive" \/ ScheduleTimePassed(when.diff)
  THEN "invalid_schedule_time"
  ELSE IF thread_count < MinThreadCount \/ thread_count > MaxThreadCount
  THEN "invalid_thread_count"
  ELSE IF run_count < MinRunCount \/ run_count > MaxRunCount
  THEN "invalid_run_count"
  ELSE NoError

\* Lines 593-610: a buy is checked against the amount of one trade, a sell
\* against the amount of all trades.
ScheduleBalanceError(trade_type, amount_in, total_trades, bal, d) ==
  IF trade_type = "buy"
  THEN (IF ~bal.ok THEN "rpc_error"
        ELSE IF bal.val < to_wei(amount_in) THEN "insufficient_mon"
        ELSE NoError)
  ELSE (IF ~bal.ok \/ ~d.ok THEN "token_balance_failed"
        ELSE IF InsufficientToken(bal.val, d.val, amount_in * total_trades)
        THEN "insufficient_token"
        ELSE NoError)

\* Chain calls after the router lookup: the deadline's block, then
\* router_contract.functions.execute, then the transaction's gas price and
\* nonce, the gas estimate and the signature.
ScheduleCalls ==
  <<"get_block", "gas_price", "get_transaction_count", "estimate_gas",
    "sign_transaction">>

\* The task id is drawn before the chain calls: a submission that fails in
\* them has used it up.
TaskCounterDrawnFirst(counter, registered) == counter + 1

\* task_id = f"task_{self.task_counter}"; self.task_counter += 1 (lines
\* 656-657), after the signature: reached when every call before returned.
TaskCounterAfter(counter, registered) ==
  IF registered THEN counter + 1 ELSE counter

ScheduleSwap ==
  /\ pc = "idle"
  /\ UNCHANGED <<observed, watch, loop, scratch>>
  /\ \E k \in Keys, t \in SwapTokens, when \in ScheduleTimes,
        th \in ThreadCounts, rn \in RunCounts :
       LET err0 == ValidateRequest(k, t)
           err1 == ScheduleValidation(when, th, rn)
           timed == err0 = NoError /\ err1 # "invalid_schedule_time"
           seen == [called |-> TRUE, when |-> when,
                    passed_time_check |-> timed,
                    delay_seconds |-> IF timed THEN DelaySeconds(when.diff)
                                      ELSE 0,
                    registered |-> FALSE,
                    thread_count |-> th, run_count |-> rn,
                    validated |-> err0 = NoError /\ err1 = NoError,
                    total_trades |-> th * rn,
                    precheck |-> None, calls_raised |-> FALSE]
       IN IF err0 # NoError \/ err1 # NoError
          THEN /\ Finish(Failure("schedule_swap",
                                 IF err0 # NoError THEN err0 ELSE err1, "none"))
               /\ sched' = seen
               /\ UNCHANGED <<service, issued>>
          ELSE \E a \in Amounts, tt \in {"buy", "sell"},
                  bal \in Outcomes({0, 10, 20}), d \in Outcomes(Decimals) :
                 LET err2 == ScheduleBalanceError(tt, a, th * rn, bal, d)
                     token == to_checksum_address(t)
                     cache == discover_universal_router(router_cache, token)
                     bindable == HasFunction(router_abi, "execute")
                     checked == [seen EXCEPT !.precheck =
                                   [trade_type |-> tt, amount_in |-> a,
                                    balance |-> bal, decimals |-> d]]
                     limit == IF bindable THEN Len(ScheduleCalls) ELSE 1
                 IN /\ (tt = "buy" => d = Raised)
                    /\ IF err2 # NoError
                       THEN /\ Finish(Failure("schedule_swap", err2, "none"))
                            /\ sched' = checked
                            /\ UNCHANGED <<service, issued>>
                       ELSE \E f \in 0..limit, s \in Slippages,
                               est \in GasEstimates :
                              IF f > 0 \/ ~bindable
                              THEN /\ Finish(Failure("schedule_swap",
                                        IF f > 0 THEN "rpc_error"
                                        ELSE "abi_function_not_found", "none"))
                                   /\ sched' = [checked EXCEPT
                                                  !.calls_raised = f > 0]
                                   /\ router_cache' = cache
                                   /\ task_counter' =
                                        TaskCounterAfter(task_counter, FALSE)
                                   /\ UNCHANGED <<uniswap_v3_router,
                                        scheduled_tasks, timers,
                                        pool_monitors, monitor_counter, issued>>
                              ELSE LET task_id == task_counter
                                       task_info ==
                                         [wallet_address |-> WalletOf(k),
                                          token_address |-> token,
                                          amount_in |-> a, trade_type |-> tt,
                                          slippage |-> s, schedule_time |-> when,
                                          delay_seconds |-> seen.delay_seconds,
                                          thread_count |-> th, run_count |-> rn,
                                          total_trades |-> th * rn,
                                          estimated_gas |-> est,
                                          raw_transaction |-> "signed",
                                          active |-> TRUE, completed |-> FALSE]
                                   IN /\ task_counter < MaxTasks
                                      /\ task_counter' =
                                           TaskCounterAfter(task_counter, TRUE)
                                      /\ scheduled_tasks' =
                                           scheduled_tasks @@ (task_id :> task_info)
                                      /\ timers' = timers \cup {task_id}
                                      /\ router_cache' = cache
                                      /\ sched' = [checked EXCEPT !.registered = TRUE]
                                      /\ issued' = Append(issued,
                                           [kind |-> "task", id |-> task_id])
                                      /\ Finish(Success("schedule_swap",
                                           [task_id |-> task_id,
                                            delay_seconds |-> seen.delay_seconds,
                                            thread_count |-> th, run_count |-> rn,
                                            total_trades |-> th * rn,
                                            estimated_gas |-> est,
                                            status |-> "scheduled"]))
                                      /\ UNCHANGED <<uniswap_v3_router,
                                           pool_monitors, monitor_counter>>

(***************************************************************************)
(* execute_scheduled_task (lines 1249-1295), called by a task's timer or   *)
(* directly; get_scheduled_tasks (lines 1297-1329).                        *)
(***************************************************************************)
ExecuteScheduledTask ==
  /\ pc = "idle"
  /\ \E task_id \in 0..MaxTasks :
       /\ timers' = timers \ {task_id}
       /\ IF task_id \notin DOMAIN scheduled_tasks
          THEN /\ scheduled_tasks' = scheduled_tasks
               /\ Finish(Failure("execute_scheduled_task", "task_not_found",
                                 "none"))
          ELSE IF ~scheduled_tasks[task_id].active
          THEN /\ scheduled_tasks' = scheduled_tasks
               /\ Finish(Failure("execute_scheduled_task", "task_stopped",
                                 "none"))
          ELSE /\ scheduled_tasks' =
                    [scheduled_tasks EXCEPT ![task_id].active = FALSE,
                                            ![task_id].completed = TRUE]
               /\ Finish(Success("execute_scheduled_task",
                    [task_id |-> task_id, status |-> "completed",
                     total_trades |-> scheduled_tasks[task_id].thread_count
                                      * scheduled_tasks[task_id].run_count]))
  /\ UNCHANGED <<uniswap_v3_router, router_cache, task_counter, pool_monitors,
                 monitor_counter, sched, monitoring, scratch>>

ActiveTasks == {i \in DOMAIN scheduled_tasks : scheduled_tasks[i].active}

GetScheduledTasks ==
  /\ pc = "idle"
  /\ Finish(Success("get_scheduled_tasks",
                    [tasks |-> [i \in ActiveTasks |-> scheduled_tasks[i]],
                     total_count |-> Cardinality(ActiveTasks)]))
  /\ UNCHANGED <<service, sched, monitoring, scratch>>

(***************************************************************************)
(* The service after construction (lines 33-77), and its steps.            *)
(***************************************************************************)
\* The service after __init__ (lines 33-77).
Constructed ==
  /\ \E probes \in [1..Len(potential_routers) -> CodeProbes] :
       uniswap_v3_router = ConfigureRouter(probes)
  /\ router_cache = <<>>
  /\ scheduled_tasks = <<>>
  /\ task_counter = 0
  /\ timers = {}
  /\ pool_monitors = <<>>
  /\ monitor_counter = 0
  /\ pc = "idle"
  /\ req = NoRequest
  /\ balance_seen = None
  /\ weth_address = "unset"
  /\ approval = "none"
  /\ transaction = None
  /\ tx_hash = "none"
  /\ receipt = None
  /\ calls = <<>>
  /\ stages = <<>>
  /\ swallowed = {}
  /\ raised = {}
  /\ build_env = None
  /\ sched = None
  /\ issued = <<>>
  /\ observed = <<>>
  /\ watch = None
  /\ loop = Asleep
  /\ out = <<>>
  /\ inflight = <<>>
  /\ result = Pending("none")

Init == Constructed /\ arg = None

Next ==
  \/ ExecuteSwapCall
  \/ BalanceCheck
  \/ ResolveWeth
  \/ ValidateRouter
  \/ BuildTransaction
  \/ EstimateGas
  \/ SignTransaction
  \/ SendTransaction
  \/ WaitReceipt
  \/ Return
  \/ GetTokenInfo
  \/ GetTokenBalance
  \/ ScheduleSwap
  \/ ExecuteScheduledTask
  \/ GetScheduledTasks

Spec == Init /\ [][Next]_vars

(***************************************************************************)
(* The balance monitor: its three operations and the checks of its thread. *)
(* The monitor map and the monitor counter are read and written by these   *)
(* steps only, and no stage of execute_swap reads them, so the monitor is  *)
(* checked apart from the stages of a swap.                                *)
(***************************************************************************)
MonitorNext ==
  \/ StartPoolMonitor
  \/ StopPoolMonitor
  \/ GetPoolMonitors
  \/ CheckPoolStatus
  \/ Return

MonitorSpec == Init /\ [][MonitorNext]_vars

(***************************************************************************)
(* The operations that hand out identifiers, in any sequential order.      *)
(***************************************************************************)
IdentifierNext ==
  \/ StartPoolMonitor
  \/ StopPoolMonitor
  \/ ScheduleSwap
  \/ Return

IdentifierSpec == Init /\ [][IdentifierNext]_vars

(***************************************************************************)
(* The monitor thread beside start_pool_monitor and stop_pool_monitor.     *)
(* The thread is a daemon thread in a `while True` loop that only sleeps   *)
(* between passes, so it is scheduled again and again: weak fairness.      *)
(***************************************************************************)
ThreadNext ==
  \/ StartPoolMonitor
  \/ StopPoolMonitor
  \/ Return
  \/ MonitorPoolsBegin
  \/ MonitorPoolsCheck
  \/ MonitorPoolsSleep

ThreadSpec == Init /\ [][ThreadNext]_vars /\ WF_vars(monitor_pools)

(***************************************************************************)
(* Construction: _configure_monad_contracts (line 51 of __init__) applied  *)
(* to every answer the chain can give to its get_code calls.               *)
(***************************************************************************)
ConfigureInit ==
  /\ \E router_probes \in [1..Len(potential_routers) -> CodeProbes],
        factory_probes \in [1..Len(potential_factories) -> CodeProbes] :
       arg = [router_probes |-> router_probes,
              factory_probes |-> factory_probes]
  /\ uniswap_v3_router = "unset"
  /\ pc = "construct"
  /\ router_cache = <<>>
  /\ scheduled_tasks = <<>>
  /\ task_counter = 0
  /\ timers = {}
  /\ pool_monitors = <<>>
  /\ monitor_counter = 0
  /\ req = NoRequest
  /\ balance_seen = None
  /\ weth_address = "unset"
  /\ approval = "none"
  /\ transaction = None
  /\ tx_hash = "none"
  /\ receipt = None
  /\ calls = <<>>
  /\ stages = <<>>
  /\ swallowed = {}
  /\ raised = {}
  /\ build_env = None
  /\ sched = None
  /\ issued = <<>>
  /\ observed = <<>>
  /\ watch = None
  /\ loop = Asleep
  /\ out = <<>>
  /\ inflight = <<>>
  /\ result = Pending("none")

ConfigureMonadContracts ==
  /\ pc = "construct"
  /\ LET set == configure_monad_contracts(arg.router_probes,
                                          arg.factory_probes)
     IN /\ uniswap_v3_router' = set.uniswap_v3_router
        /\ out' = <<set>>
  /\ pc' = "idle"
  /\ UNCHANGED <<router_cache, scheduled_tasks, task_counter, timers,
                 pool_monitors, monitor_counter, locals, history, sched,
                 monitoring, arg, inflight,
                 result>>

ConfigureNext == ConfigureMonadContracts

ConfigureSpec == ConfigureInit /\ [][ConfigureNext]_vars

(***************************************************************************)
(* _discover_available_fee_tier (lines 1331-1355) with _get_pool_address   *)
(* (1357-1377), applied to every answer the factory can give.              *)
(***************************************************************************)
\* The default tier is tried before the others.
FeeTiersDefaultFirst == <<3000, 500, 10000>>

\* fee_tiers = [500, 3000, 10000] (line 1335)
fee_tiers == <<500, 3000, 10000>>

PoolLookups == Outcomes({ZeroAddress, "0xPoolA", "0xPoolB"})

\* getPool(self.weth_address, token_address, fee).call(): web3 refuses a
\* token address that is not checksummed; every error gives the zero
\* address (lines 1375-1377).
get_pool_address(token_address, lookup) ==
  IF ~IsChecksummed(token_address) \/ ~lookup.ok THEN ZeroAddress
  ELSE lookup.val

RECURSIVE FirstTierWithPool(_, _, _)
FirstTierWithPool(token_address, lookups, i) ==
  IF i > Len(fee_tiers) THEN DefaultFeeTier
  ELSE LET fee == fee_tiers[i]
           pool_address == get_pool_address(token_address, lookups[fee])
       IN IF pool_address # ZeroAddress THEN fee
          ELSE FirstTierWithPool(token_address, lookups, i + 1)

discover_available_fee_tier(token_address, lookups) ==
  FirstTierWithPool(token_address, lookups, 1)

FeeTierInit ==
  /\ Constructed
  /\ \E token_address \in {"0xT1", "0xt1"},
        lookups \in [{500, 3000, 10000} -> PoolLookups] :
       arg = [token_address |-> token_address, lookups |-> lookups]

DiscoverAvailableFeeTier ==
  /\ pc = "idle"
  /\ out = <<>>
  /\ out' = <<discover_available_fee_tier(arg.token_address, arg.lookups)>>
  /\ UNCHANGED <<service, pc, locals, history, sched, monitoring, arg, inflight,
                 result>>

FeeTierNext == DiscoverAvailableFeeTier

FeeTierSpec == FeeTierInit /\ [][FeeTierNext]_vars

(***************************************************************************)
(* build_universal_router_execute_data (lines 382-459).  A string is the   *)
(* sequence of its characters, a byte string the sequence of its bytes, a  *)
(* Python int its sign and its magnitude in base 256, most significant     *)
(* digit first, without leading zeros.                                     *)
(***************************************************************************)
Rep(n, x) == [i \in 1..n |-> x]

HexTable ==
  [c \in {"0", "1", "2", "3", "4", "5", "6", "7", "8", "9", "a", "b", "c",
          "d", "e", "f", "A", "B", "C", "D", "E", "F"} |->
     CASE c = "0" -> 0 [] c = "1" -> 1 [] c = "2" -> 2 [] c = "3" -> 3
       [] c = "4" -> 4 [] c = "5" -> 5 [] c = "6" -> 6 [] c = "7" -> 7
       [] c = "8" -> 8 [] c = "9" -> 9
       [] c \in {"a", "A"} -> 10 [] c \in {"b", "B"} -> 11
       [] c \in {"c", "C"} -> 12 [] c \in {"d", "D"} -> 13
       [] c \in {"e", "E"} -> 14 [] c \in {"f", "F"} -> 15]

\* eth_utils.remove_0x_prefix
remove_0x_prefix(str) ==
  IF Len(str) >= 2 /\ str[1] = "0" /\ str[2] \in {"x", "X"}
  THEN SubSeq(str, 3, Len(str)) ELSE str

\* binascii.unhexlify after remove_0x_prefix: raises on a character that is
\* no hex digit and on an odd number of digits.
decode_hex(hexstr) ==
  LET digits == remove_0x_prefix(hexstr)
  IN IF \/ Len(digits) % 2 = 1
        \/ \E i \in DOMAIN digits : digits[i] \notin DOMAIN HexTable
     THEN Raised
     ELSE Ok([i \in 1..(Len(digits) \div 2) |->
                16 * HexTable[digits[2 * i - 1]] + HexTable[digits[2 * i]]])

\* w3.to_bytes(hexstr=...): a string of odd length gets a leading zero
\* digit; the length of what is decoded is not looked at.
to_bytes(hexstr) ==
  IF Len(hexstr) % 2 = 1
  THEN decode_hex(<<"0", "x", "0">> \o remove_0x_prefix(hexstr))
  ELSE decode_hex(hexstr)

\* str[2:]
From2(str) == SubSeq(str, 3, Len(str))

\* The bytes of the int without padding to the length.
IntToBytesUnpadded(n, length) ==
  IF n.negative \/ Len(n.digits) > length THEN Raised ELSE Ok(n.digits)

\* The bytes of the int with the least significant byte first.
IntToBytesLittle(n, length) ==
  IF n.negative \/ Len(n.digits) > length THEN Raised
  ELSE Ok([i \in 1..length |->
             IF i <= Len(n.digits) THEN n.digits[Len(n.digits) + 1 - i]
             ELSE 0])

\* int.to_bytes(length, 'big'): OverflowError for a negative int and for
\* one that does not fit.
int_to_bytes(n, length) ==
  IF n.negative \/ Len(n.digits) > length THEN Raised
  ELSE Ok(Rep(length - Len(n.digits), 0) \o n.digits)

Int0 == [negative |-> FALSE, digits |-> <<>>]

\* The path of a sell is the path of a buy.
PathNativeFirst(trade_type, token) == <<2>> \o Rep(20, 0) \o token

\* input2 (lines 418-422, 443-447): every trade type but "buy" takes the
\* else branch.
Path(trade_type, token) ==
  IF trade_type = "buy" THEN <<2>> \o Rep(20, 0) \o token
  ELSE <<2>> \o token \o Rep(20, 0)

build_universal_router_execute_data(token_address, amount_in, trade_type, wallet_address, block) ==
  LET token == to_bytes(From2(token_address))
      amount == int_to_bytes(amount_in, 32)
      zero == int_to_bytes(Int0, 32)
      wallet == to_bytes(From2(wallet_address))
  IN IF ~block.ok \/ ~token.ok \/ ~amount.ok \/ ~wallet.ok
     THEN [kind |-> "raised"]
     ELSE [kind |-> "ok",
           commands |-> <<11>>,
           inputs |-> <<token.val \o amount.val \o zero.val \o wallet.val,
                        Path(trade_type, token.val)>>,
           deadline |-> block.val + RouterDeadlineWindow]

\* Arguments of the encoder: addresses of forty hex digits in two
\* spellings, of thirty-eight, thirty-nine and forty-two digits, without
\* the 0x prefix, and with a character that is no hex digit.
Str0x == <<"0", "x">>
EncoderTokens ==
  {Str0x \o <<"A", "b">> \o Rep(38, "1"),
   Str0x \o <<"a", "b">> \o Rep(38, "1"),
   Str0x \o Rep(38, "1"),
   Str0x \o Rep(39, "1"),
   Str0x \o Rep(42, "1"),
   <<"A", "b">> \o Rep(38, "1"),
   Str0x \o <<"g">> \o Rep(39, "1")}
EncoderWallets ==
  {Str0x \o <<"C", "d">> \o Rep(38, "2"),
   Str0x \o Rep(38, "2")}
\* 0, 1, 255, 256, 2^256 - 1, 2^256 and -1.
EncoderAmounts ==
  {Int0,
   [negative |-> FALSE, digits |-> <<1>>],
   [negative |-> FALSE, digits |-> <<255>>],
   [negative |-> FALSE, digits |-> <<1, 0>>],
   [negative |-> FALSE, digits |-> Rep(32, 255)],
   [negative |-> FALSE, digits |-> <<1>> \o Rep(32, 0)],
   [negative |-> TRUE, digits |-> <<1>>]}
BlockTimes == 0..MaxBlockTime

EncoderInit ==
  /\ Constructed
  /\ \E token_address \in EncoderTokens, amount_in \in EncoderAmounts,
        trade_type \in TradeTypes, wallet_address \in EncoderWallets,
        block \in Outcomes(BlockTimes) :
       arg = [token_address |-> token_address, amount_in |-> amount_in,
              trade_type |-> trade_type, wallet_address |-> wallet_address,
              block |-> block]

BuildUniversalRouterExecuteData ==
  /\ pc = "idle"
  /\ out = <<>>
  /\ out' = <<build_universal_router_execute_data(arg.token_address,
                 arg.amount_in, arg.trade_type, arg.wallet_address,
                 arg.block)>>
  /\ UNCHANGED <<service, pc, locals, history, sched, monitoring, arg, inflight,
                 result>>

EncoderNext == BuildUniversalRouterExecuteData

EncoderSpec == EncoderInit /\ [][EncoderNext]_vars

(***************************************************************************)
(* The router registry: discover_universal_router called on its own, and   *)
(* the two operations that call it, get_token_info and schedule_swap.  No  *)
(* other line of the service reads or writes router_cache.                 *)
(***************************************************************************)
RegistryNext ==
  \/ DiscoverUniversalRouter
  \/ GetTokenInfo
  \/ ScheduleSwap
  \/ Return

RegistrySpec == Init /\ [][RegistryNext]_vars

(***************************************************************************)
(* Properties of execute_swap.                                             *)
(***************************************************************************)
Made == {calls[i] : i \in 1..Len(calls)}
Count(name) == Cardinality({i \in 1..Len(calls) : calls[i] = name})
StageIndex(s) == CHOOSE i \in 1..Len(StageOrder) : StageOrder[i] = s
SwapDone == pc = "done" /\ result.op = "execute_swap"
SwapFailed == SwapDone /\ result.kind = "err"
SwapSucceeded == SwapDone /\ result.kind = "ok"

\* The balance the invocation read is below what the trade needs.
BalanceUnmet ==
  /\ balance_seen # None
  /\ IF balance_seen.kind = "native"
     THEN balance_seen.balance < to_wei(req.amount_in)
     ELSE balance_seen.balance
            < req.amount_in * Pow10(balance_seen.decimals)

\* Calls that sign something or hand a transaction to the network.
ChainWrites ==
  {"sign_transaction", "send_raw_transaction", "sign_approve", "send_approve"}

\* C1: when the balance read by execute_swap is below the required amount
\* (native balance for a buy, token balance for a sell) the call has ended
\* with a failure result and nothing was signed or broadcast.
C1_InsufficientBalanceFails ==
  BalanceUnmet =>
    /\ SwapFailed
    /\ result.success = FALSE
    /\ result.error \in {"insufficient_mon", "insufficient_token"}
    /\ Made \cap ChainWrites = {}
    /\ transaction = None
    /\ tx_hash = "none"

\* C1 witness: a buy ended on a native balance below the amount.
C1_Witness ==
  /\ SwapDone
  /\ BalanceUnmet
  /\ balance_seen.kind = "native"
  /\ req.trade_type = "buy"

\* The swap transaction was accepted by the network and its receipt has
\* status 1.
ConfirmedOnChain ==
  /\ tx_hash # "none"
  /\ receipt # None
  /\ receipt.status = 1

\* C2 (as the specification states it): a finished execute_swap reports
\* success exactly when the transaction was broadcast and a status-1 receipt
\* was obtained, and the success data carries the hash, block number, gas
\* used and the logs of that receipt.
C2_SuccessIffConfirmed ==
  SwapDone =>
    /\ (result.kind = "ok") <=> ConfirmedOnChain
    /\ result.kind = "ok" =>
         /\ result.data.tx_hash = tx_hash
         /\ result.data.block_number = receipt.blockNumber
         /\ result.data.gas_used = receipt.gasUsed
         /\ result.data.logs = receipt.logs

\* The success data names the gas limit v of the transaction.
ResultReportsGasLimit(v) ==
  /\ result.kind = "ok"
  /\ "gas" \in DOMAIN result.data
  /\ result.data.gas = v

\* C3 (as the specification states it): after a failed gas estimate the
\* final result includes the fallback gas value.
C3_FallbackGasInResult ==
  (SwapSucceeded /\ "estimate_gas" \in swallowed)
    => ResultReportsGasLimit(FallbackGas)

\* C3 (amended): a failed gas estimate does not fail the lifecycle; the gas
\* limit of the transaction becomes the fallback value, the call goes on to
\* sign and broadcast that transaction, a later failure is never due to the
\* estimate, and a success result reports the gas used of the receipt and no
\* gas limit.
C3_FallbackGasUsed ==
  ("estimate_gas" \in swallowed) =>
    /\ transaction # None
    /\ transaction.gas = FallbackGas
    /\ pc \in {"sign", "send", "wait", "done"}
    /\ pc # "sign" => "sign_transaction" \in Made
    /\ pc \in {"wait", "done"} /\ tx_hash # "none"
         => "send_raw_transaction" \in Made
    /\ SwapFailed => \E e \in raised : /\ e[2] = result.error
                                       /\ e[1] \in {"sign", "send", "wait"}
    /\ SwapSucceeded => /\ result.data.gas_used = receipt.gasUsed
                        /\ ~ResultReportsGasLimit(FallbackGas)

\* C3 witness: a swap that succeeded after its gas estimate had failed.
C3_Witness ==
  /\ SwapSucceeded
  /\ "estimate_gas" \in swallowed
  /\ transaction.gas = FallbackGas

\* C4 (as the specification states it): a failure after the broadcast still
\* reports the transaction hash.
C4_FailureReportsHash ==
  (SwapFailed /\ tx_hash # "none") => result.error_hash = tx_hash

\* Calls that only read the chain once the swap has been broadcast.
AfterBroadcastReads ==
  {"wait_for_transaction_receipt", "get_transaction", "eth_call"}

\* C5: within one execute_swap the swap transaction is handed to the network
\* at most once; a rejected broadcast ends the call with nothing after it,
\* and after the broadcast (a status-0 receipt included) only the receipt
\* wait and the read-only diagnosis follow.
C5_BroadcastAtMostOnce ==
  /\ Count("send_raw_transaction") <= 1
  /\ \A i \in 1..Len(calls) :
       calls[i] = "send_raw_transaction" =>
         \A j \in (i + 1)..Len(calls) : calls[j] \in AfterBroadcastReads
  /\ (SwapFailed /\ result.error = "send_failed") =>
       /\ calls[Len(calls)] = "send_raw_transaction"
       /\ tx_hash = "none"
  /\ Count("wait_for_transaction_receipt") <= 1
  /\ Count("sign_transaction") <= 1

\* C5 witness: a status-0 receipt was diagnosed after the single broadcast.
C5_Witness ==
  /\ SwapFailed
  /\ receipt # None
  /\ receipt.status = 0
  /\ "eth_call" \in Made
  /\ Count("send_raw_transaction") = 1

\* C6: the stages of one execute_swap are entered in the order balance
\* check, build (WETH lookup, router validation, transaction build), gas
\* estimate, sign, broadcast, receipt wait, each one at most once and none
\* skipped; the call is in the last stage entered, and it ends with success
\* only out of the receipt wait and with a failure result otherwise.
C6_StagesForward ==
  /\ \A i \in 1..Len(stages) : stages[i] = StageOrder[i]
  /\ Len(stages) <= Len(StageOrder)
  /\ pc \notin {"idle", "done"} =>
       /\ stages # <<>>
       /\ stages[Len(stages)] = pc
  /\ SwapSucceeded => stages = StageOrder
  /\ SwapDone /\ stages # StageOrder => SwapFailed

\* C6 witness: a call that ended in a stage error after the gas estimate.
C6_Witness ==
  /\ SwapFailed
  /\ Len(stages) = StageIndex("send")
  /\ result.error = "send_failed"

\* C7 (as the specification states it): a sell whose allowance is below the
\* amount has its approval built, signed, broadcast and awaited before the
\* swap transaction is built, and a sell whose allowance suffices has its
\* swap built with no approval broadcast.  Stated for a sell whose build
\* stage met no failing chain call.
C7_ApprovalBeforeSwap ==
  (build_env # None /\ build_env.trade_type = "sell"
     /\ ~build_env.call_raised) =>
    /\ transaction # None
    /\ build_env.approval_needed =>
         /\ approval \in {"status0", "status1"}
         /\ "wait_approve" \in Made
    /\ ~build_env.approval_needed =>
         /\ approval = "none"
         /\ "send_approve" \notin Made

Operations ==
  {"execute_swap", "schedule_swap", "execute_scheduled_task",
   "get_scheduled_tasks", "get_token_info", "get_token_balance",
   "start_pool_monitor", "stop_pool_monitor", "get_pool_monitors"}

RaisedBeforeSign ==
  {e[2] : e \in {x \in raised : x[1] \in {"call", "balance", "weth",
                                          "validate", "build", "gas"}}}

\* The swap transaction went to signing.
Signing == pc = "sign" \/ "sign_transaction" \in Made

\* C9 (as the specification states it): a transaction goes to signing only
\* if no error was raised before, the failed gas estimate apart
\* (execute_swap runs no router or fee-tier discovery: lines 777, 860); in
\* particular a router validation that finds no valid bytecode ends the call.
C9_OnlyGasSwallowed ==
  Signing => RaisedBeforeSign \subseteq {"estimate_gas"}

(***************************************************************************)
(* Properties of schedule_swap.                                            *)
(***************************************************************************)
ScheduleDone == pc = "done" /\ result.op = "schedule_swap"

ScheduleValidationErrors ==
  {"invalid_private_key", "invalid_token_address", "invalid_schedule_time"}

\* C10 (as the specification states it): schedule_swap fails with a
\* validation error whenever the delay it computes (delay_seconds, the whole
\* seconds of schedule time minus now) is not strictly positive, and every
\* registered task has a recorded delay above zero.
C10_NonPositiveDelayRejected ==
  /\ (ScheduleDone /\ sched.when.kind = "naive"
        /\ DelaySeconds(sched.when.diff) <= 0) =>
       /\ ~sched.passed_time_check
       /\ result.kind = "err"
       /\ result.error \in ScheduleValidationErrors
  /\ \A id \in DOMAIN scheduled_tasks : scheduled_tasks[id].delay_seconds > 0

\* C10 (amended): schedule_swap fails with a validation error, registering
\* nothing, whenever the schedule time is unparsable or not strictly later
\* than now; a time it accepts is later than now and the delay it computes
\* is the whole seconds of the difference, which is zero or more.
C10_PastTimeRejected ==
  /\ (ScheduleDone /\ (sched.when.kind # "naive" \/ sched.when.diff <= 0)) =>
       /\ ~sched.passed_time_check
       /\ ~sched.registered
       /\ result.kind = "err"
       /\ result.error \in ScheduleValidationErrors
  /\ (ScheduleDone /\ sched.passed_time_check) =>
       /\ sched.when.kind = "naive"
       /\ sched.when.diff > 0
       /\ sched.delay_seconds >= 0
       /\ sched.delay_seconds * TicksPerSecond <= sched.when.diff
       /\ sched.when.diff < (sched.delay_seconds + 1) * TicksPerSecond
  /\ \A id \in DOMAIN scheduled_tasks :
       /\ scheduled_tasks[id].delay_seconds >= 0
       /\ scheduled_tasks[id].schedule_time.diff > 0

\* C10 witness: a schedule time less than a second ahead passed the time
\* check with a delay of zero seconds.
C10_Witness ==
  /\ ScheduleDone
  /\ sched.passed_time_check
  /\ sched.delay_seconds = 0
  /\ sched.when.diff > 0

CountsInRange(thread_count, run_count) ==
  /\ MinThreadCount <= thread_count
  /\ thread_count <= MaxThreadCount
  /\ MinRunCount <= run_count
  /\ run_count <= MaxRunCount

\* C11: schedule_swap fails with a validation error when thread_count is
\* outside [1,10] or run_count is outside [1,100]; a submission that passes
\* validation, and every registered task, has both counts in range and
\* total_trades = thread_count * run_count.
C11_CountsValidated ==
  /\ (ScheduleDone
        /\ ~CountsInRange(sched.thread_count, sched.run_count)) =>
       /\ result.kind = "err"
       /\ ~sched.validated
       /\ ~sched.registered
       /\ sched.precheck = None
       /\ IF sched.passed_time_check
          THEN result.error \in {"invalid_thread_count", "invalid_run_count"}
          ELSE result.error \in ScheduleValidationErrors
  /\ (ScheduleDone /\ sched.validated) =>
       /\ CountsInRange(sched.thread_count, sched.run_count)
       /\ sched.total_trades = sched.thread_count * sched.run_count
  /\ \A id \in DOMAIN scheduled_tasks :
       /\ CountsInRange(scheduled_tasks[id].thread_count,
                        scheduled_tasks[id].run_count)
       /\ scheduled_tasks[id].total_trades
            = scheduled_tasks[id].thread_count * scheduled_tasks[id].run_count

\* C11 witness: a submission with a schedule time ahead and eleven threads
\* was refused.
C11_Witness ==
  /\ ScheduleDone
  /\ sched.passed_time_check
  /\ sched.thread_count = MaxThreadCount + 1
  /\ result.kind = "err"
  /\ result.error = "invalid_thread_count"

\* The balance read by the pre-check of schedule_swap is below the amount
\* of all the trades of the task.
BelowFullAmount ==
  /\ sched.precheck # None
  /\ sched.precheck.balance.ok
  /\ IF sched.precheck.trade_type = "buy"
     THEN sched.precheck.balance.val
            < to_wei(sched.precheck.amount_in) * sched.total_trades
     ELSE /\ sched.precheck.decimals.ok
          /\ sched.precheck.balance.val
               < sched.precheck.amount_in * sched.total_trades
                   * Pow10(sched.precheck.decimals.val)

\* C12 (as the specification states it): for a buy and for a sell, the
\* balance pre-check of schedule_swap refuses a submission whose wallet
\* balance is below amount * thread_count * run_count, and no task is
\* registered.
C12_FullAmountChecked ==
  (ScheduleDone /\ BelowFullAmount) =>
    /\ result.kind = "err"
    /\ result.error \in {"insufficient_mon", "insufficient_token"}
    /\ ~sched.registered

\* Swap submissions made by execute_scheduled_task for a task: the body
\* between the log line and the completion flags is a comment (lines
\* 1268-1273).
TaskSwapSubmissions(task_id) == 0

\* A submission that passed validation and the balance pre-check and whose
\* chain calls all returned.
SubmissionInOrder ==
  /\ ScheduleDone
  /\ sched.validated
  /\ sched.precheck # None
  /\ result.kind = "err" => result.error \notin
       {"rpc_error", "token_balance_failed", "insufficient_mon",
        "insufficient_token"}
  /\ ~sched.calls_raised

C16_IdentifiersDistinct ==
  \A i, j \in DOMAIN issued :
    (i < j /\ issued[i].kind = issued[j].kind) => issued[i].id # issued[j].id

\* A monitor was stopped and removed, and a monitor was started after that.
C16_Witness ==
  /\ Len(issued) = 2
  /\ issued[1].kind = "monitor" /\ issued[2].kind = "monitor"
  /\ issued[1].id \notin DOMAIN pool_monitors
  /\ issued[2].id \in DOMAIN pool_monitors
  /\ pc = "done" /\ result.op = "start_pool_monitor"

(***************************************************************************)
(* Properties of the balance monitor.                                      *)
(***************************************************************************)
\* The last step was a check of a live monitor whose balance read returned.
Checked == pc = "polled" /\ watch.op = "check" /\ watch.read.ok

\* C17: after start_pool_monitor with threshold t, two consecutive reads b1
\* and b2 with |b2 - b1| < t produce no change event in either check, and a
\* following read b3 at distance t or more from the balance observed so far
\* produces a change event and sets last_balance to b3.
C17_QuietThenChange ==
  Checked =>
    LET m == watch.monitor_id
        t == pool_monitors[m].threshold
        c == watch.read.val
        seen == watch.before
    IN /\ (Len(seen) = 1 /\ Abs(c - seen[1].read) < t)
            => ~seen[1].event /\ ~watch.event
       /\ (/\ Len(seen) = 2
           /\ Abs(seen[2].read - seen[1].read) < t
           /\ Abs(c - watch.last_balance) >= t)
            => watch.event /\ pool_monitors[m].last_balance = c

\* What a check with a successful read leaves in the monitor's record.
CheckEffect ==
  Checked =>
    LET monitor_info == pool_monitors[watch.monitor_id]
        c == watch.read.val
    IN IF Abs(c - watch.last_balance) > monitor_info.threshold
       THEN /\ monitor_info.last_balance = c
            /\ watch.auto_trade_run <=> monitor_info.auto_trade
       ELSE /\ monitor_info.last_balance = watch.last_balance
            /\ ~watch.auto_trade_run

\* A step that changes the last_balance of a monitor is a check of it.
OnlyCheckWrites ==
  \A m \in DOMAIN pool_monitors \cap DOMAIN pool_monitors' :
    pool_monitors'[m].last_balance # pool_monitors[m].last_balance =>
      /\ pc' = "polled"
      /\ watch'.op = "check" /\ watch'.monitor_id = m

\* C18: a check of an active monitor with a successful read c sets
\* last_balance to c, and runs the auto-trade hook iff auto_trade is set,
\* exactly when |c - last_balance| exceeds the threshold; otherwise it leaves
\* last_balance alone and does not run the hook.  No other step changes a
\* monitor's last_balance.
C18_CheckUpdatesBalance == []CheckEffect /\ [][OnlyCheckWrites]_vars

\* A check of a monitor with auto_trade set read a balance beyond the
\* threshold.
C18_Witness ==
  /\ Checked
  /\ watch.event /\ watch.auto_trade_run
  /\ watch.read.val # watch.last_balance
  /\ pool_monitors[watch.monitor_id].last_balance = watch.read.val

\* stop_pool_monitor returned, called with an id that is not in the map.
StopOfUnknown ==
  /\ pc = "idle" /\ pc' = "done"
  /\ result'.op = "stop_pool_monitor"
  /\ watch'.monitor_id \notin DOMAIN pool_monitors

\* C19: stop_pool_monitor with an id that is not in the live set (never
\* started, or already stopped) returns a failure "monitor id not found"
\* without raising, and leaves the monitor map and the counter unchanged.
C19_StopUnknownFails ==
  [][StopOfUnknown =>
       /\ result'.kind = "err"
       /\ result'.error = "monitor_not_found"
       /\ pool_monitors' = pool_monitors
       /\ monitor_counter' = monitor_counter]_vars

\* stop_pool_monitor failed for the id of a monitor stopped before, while
\* another monitor is live.
C19_Witness ==
  /\ pc = "done" /\ result.op = "stop_pool_monitor"
  /\ result.kind = "err"
  /\ \E i \in DOMAIN issued : issued[i].id = watch.monitor_id
  /\ watch.monitor_id \notin DOMAIN pool_monitors
  /\ pool_monitors # <<>>

\* The monitors started and not stopped since, by the calls made.
Running == DOMAIN observed

\* What get_pool_monitors returns is the running monitors.
ListedAreRunning ==
  (pc = "done" /\ result.op = "get_pool_monitors") =>
    /\ result.kind = "ok"
    /\ DOMAIN result.data.monitors = Running
    /\ result.data.total_count = Cardinality(Running)
    /\ \A m \in Running :
         result.data.monitors[m].last_balance = pool_monitors[m].last_balance

\* A successful stop_pool_monitor removes its own entry and no other.
StopRemovesOne ==
  (/\ pc = "idle" /\ pc' = "done"
   /\ result'.op = "stop_pool_monitor" /\ result'.kind = "ok") =>
    /\ DOMAIN pool_monitors' = DOMAIN pool_monitors \ {watch'.monitor_id}
    /\ \A m \in DOMAIN pool_monitors' : pool_monitors'[m] = pool_monitors[m]

\* C20: after any sequential history of start_pool_monitor and
\* stop_pool_monitor, get_pool_monitors returns exactly the monitors started
\* and not yet stopped, total_count is their number, and a successful
\* stop_pool_monitor(id) removes only the entry id, every other record being
\* left as it was.
C20_ListIsRunning == []ListedAreRunning /\ [][StopRemovesOne]_vars

\* Two monitors were started, the second was stopped, and get_pool_monitors
\* reports the first alone.
C20_Witness ==
  /\ pc = "done" /\ result.op = "get_pool_monitors"
  /\ Len(issued) = 2
  /\ DOMAIN result.data.monitors = {issued[1].id}
  /\ result.data.total_count = 1

(***************************************************************************)
(* Properties of the monitor thread.                                       *)
(***************************************************************************)
\* A check of the pass met a fault in this step.
FaultedNow == loop'.at = "pass" /\ loop.at = "pass" /\ loop'.faulted # loop.faulted

\* The pass is over: every monitor it found was checked, or was stopped.
PassComplete ==
  (loop.at = "pass" /\ loop.left = <<>>) =>
    \A m \in loop.found : m \in loop.checked \/ m \notin DOMAIN pool_monitors

\* C21: a fault while checking one monitor in a pass (the balance read
\* fails or raises) is contained: that monitor's last_balance is unchanged,
\* every other active monitor of the pass is still checked, and the loop
\* goes on to its next pass.
C21_FaultContained ==
  /\ [][FaultedNow => pool_monitors' = pool_monitors]_vars
  /\ []PassComplete
  /\ (loop.at = "pass" /\ loop.faulted # {}) ~> (loop.at = "sleep")
  /\ (loop.at = "sleep") ~> (loop.at = "pass" /\ loop.faulted = {})

\* A pass over two monitors ended: the check of the first met a fault and
\* the second was checked all the same.
C21_Witness ==
  /\ loop.at = "pass" /\ loop.left = <<>>
  /\ Cardinality(loop.found) = 2
  /\ \E m \in loop.faulted : \E n \in loop.checked \ loop.faulted : m < n

(***************************************************************************)
(* Properties of the router registry.                                      *)
(***************************************************************************)
\* C22: two discover_universal_router calls for the same token address
\* return the identical router, and the later one is served from the cache:
\* it does not take the discovery path and does not write the cache.
C22_ResolveIdempotent ==
  \A i, j \in DOMAIN out :
    (i < j /\ out[i].token_address = out[j].token_address) =>
      /\ out[j].router = out[i].router
      /\ out[j].path = "cache"
      /\ ~out[j].wrote

\* Two calls in a row for one token: the first discovered and cached.
C22_Witness ==
  /\ Len(out) >= 2
  /\ out[1].token_address = out[2].token_address
  /\ out[1].path = "discovery" /\ out[1].wrote
  /\ out[2].path = "cache"

\* No step removes an entry of the cache or changes its router.
CacheEntriesKept ==
  \A t \in DOMAIN router_cache :
    t \in DOMAIN router_cache' /\ router_cache'[t] = router_cache[t]

\* What a resolve returned for a token is what the cache holds for it now,
\* and what get_token_info reports is the cached router.
ResolvedIsCached ==
  /\ \A j \in DOMAIN out :
       /\ out[j].token_address \in DOMAIN router_cache
       /\ router_cache[out[j].token_address] = out[j].router
  /\ (pc = "done" /\ result.op = "get_token_info" /\ result.kind = "ok") =>
       LET t == to_checksum_address(result.data.address)
       IN t \in DOMAIN router_cache
          /\ result.data.universal_router = router_cache[t]

\* C23: router cache entries never expire and are never changed: once the
\* cache holds a value for a token address no operation removes the entry
\* or makes a later resolve for the token return another router, the
\* fallback default included.
C23_CacheNeverExpires == [][CacheEntriesKept]_vars /\ []ResolvedIsCached

\* The default router was cached for a token, other tokens were resolved by
\* get_token_info or schedule_swap, and a later resolve of the first token
\* returned the default router from the cache.
C23_Witness ==
  /\ Len(out) = 2
  /\ out[1].token_address = out[2].token_address
  /\ out[1].path = "discovery" /\ out[2].path = "cache"
  /\ out[2].router = to_checksum_address(default_router)
  /\ DOMAIN router_cache \ {out[1].token_address} # {}
  /\ pc = "idle"

\* The candidates whose get_code returned more than 100 bytes.
Qualifying ==
  {i \in DOMAIN arg.router_probes :
     arg.router_probes[i].ok /\ arg.router_probes[i].val > 100}

\* C24: router discovery probes the candidate list in order and selects the
\* first candidate whose deployed bytecode is longer than 100 bytes; a
\* candidate whose probe raises is skipped; the configured default address
\* is used if and only if no candidate qualifies.
C24_FirstQualifyingRouter ==
  (pc = "idle" /\ out # <<>>) =>
    /\ Qualifying # {} =>
         LET first == CHOOSE i \in Qualifying : \A k \in Qualifying : i <= k
         IN /\ uniswap_v3_router = potential_routers[first]
            /\ out[1].probed = first
    /\ Qualifying = {} =>
         /\ uniswap_v3_router = default_router
         /\ out[1].probed = Len(potential_routers)
    /\ out[1].branch = "default" <=> Qualifying = {}

\* The probe of the first candidate raised, the second has 100 bytes of
\* code and the third has more: the third is the router.
C24_Witness ==
  /\ pc = "idle" /\ out # <<>>
  /\ ~arg.router_probes[1].ok
  /\ arg.router_probes[2] = Ok(100)
  /\ arg.router_probes[3] = Ok(101)
  /\ uniswap_v3_router = potential_routers[3]

(***************************************************************************)
(* Properties of the fee-tier resolution.                                  *)
(***************************************************************************)
\* The factory lookup of a tier returned a pool address that is not zero.
HasPool(fee) ==
  /\ to_checksum_address(arg.token_address) = arg.token_address
  /\ arg.lookups[fee].ok
  /\ arg.lookups[fee].val # ZeroAddress

\* C25: fee-tier resolution probes the tiers 500, 3000, 10000 in that order
\* and returns the first tier whose factory pool lookup yields a non-zero
\* pool address; a lookup that fails counts as no pool; with no pool at any
\* tier the default tier 3000 is returned.
C25_FirstTierWithPool ==
  out # <<>> =>
    out[1] = IF HasPool(500) THEN 500
             ELSE IF HasPool(3000) THEN 3000
             ELSE IF HasPool(10000) THEN 10000
             ELSE 3000

\* The lookup of tier 500 failed, tier 3000 has no pool, tier 10000 has one.
C25_Witness ==
  /\ out = <<10000>>
  /\ ~arg.lookups[500].ok
  /\ arg.lookups[3000] = Ok(ZeroAddress)
  /\ arg.lookups[10000].ok

(***************************************************************************)
(* Properties of the path-swap encoder.                                    *)
(***************************************************************************)
\* An address as the callers give it: 0x and forty hex digits.
ValidAddress(str) ==
  /\ Len(str) = 42
  /\ str[1] = "0" /\ str[2] = "x"
  /\ \A i \in 3..42 : str[i] \in DOMAIN HexTable

\* An int in [0, 2^256).
ValidAmount(n) == ~n.negative /\ Len(n.digits) <= 32

ValidArguments ==
  /\ ValidAddress(arg.token_address)
  /\ ValidAddress(arg.wallet_address)
  /\ ValidAmount(arg.amount_in)

Encoded == out # <<>> /\ out[1].kind = "ok"

\* C26 (as the specification states it): for all valid arguments and both
\* directions input2 has exactly 41 bytes and input1 exactly 84 bytes.
C26_InputLengths84 ==
  (Encoded /\ ValidArguments) =>
    Len(out[1].inputs[2]) = 41 /\ Len(out[1].inputs[1]) = 84

\* C26 (amended): for all valid arguments and both directions input2 has
\* exactly 41 bytes (1 + 20 + 20) and input1 exactly 104 bytes
\* (20 + 32 + 32 + 20), and the encoder returns whenever the block read
\* does.
C26_InputLengths ==
  (out # <<>> /\ ValidArguments) =>
    /\ out[1].kind = "ok" <=> arg.block.ok
    /\ Encoded =>
         Len(out[1].inputs[2]) = 41 /\ Len(out[1].inputs[1]) = 104

\* A sell of the largest amount was encoded.
C26_Witness ==
  /\ Encoded /\ ValidArguments
  /\ arg.trade_type = "sell"
  /\ Len(arg.amount_in.digits) = 32
  /\ Len(out[1].inputs[1]) = 104

\* Decoders: the hex spelling of a byte string, the lower-case spelling
\* of a string, and int.from_bytes(..., 'big').
HexDigits ==
  <<"0", "1", "2", "3", "4", "5", "6", "7", "8", "9", "a", "b", "c", "d",
    "e", "f">>

HexOf(bytes) ==
  Str0x \o [i \in 1..(2 * Len(bytes)) |->
              LET b == bytes[(i + 1) \div 2]
              IN IF i % 2 = 1 THEN HexDigits[(b \div 16) + 1]
                 ELSE HexDigits[(b % 16) + 1]]

Lower(str) ==
  [i \in 1..Len(str) |->
     IF str[i] \in DOMAIN HexTable /\ HexTable[str[i]] >= 10
     THEN HexDigits[HexTable[str[i]] + 1] ELSE str[i]]

RECURSIVE StripZeros(_)
StripZeros(bytes) ==
  IF bytes # <<>> /\ bytes[1] = 0 THEN StripZeros(Tail(bytes)) ELSE bytes

from_bytes(bytes) == [negative |-> FALSE, digits |-> StripZeros(bytes)]

\* C27: for every valid token address, amount in [0, 2^256) and recipient,
\* splitting input1 at its field offsets and decoding the amount as a
\* big-endian integer recovers the token address, the amount and the
\* recipient that were encoded, and the minimum-output field decodes to 0.
C27_Input1RoundTrip ==
  (Encoded /\ ValidArguments) =>
    LET input1 == out[1].inputs[1]
    IN /\ HexOf(SubSeq(input1, 1, 20)) = Lower(arg.token_address)
       /\ from_bytes(SubSeq(input1, 21, 52)) = arg.amount_in
       /\ from_bytes(SubSeq(input1, 53, 84)) = Int0
       /\ HexOf(SubSeq(input1, 85, 104)) = Lower(arg.wallet_address)

\* The amount 256 was encoded for a token address spelled in mixed case.
C27_Witness ==
  /\ Encoded /\ ValidArguments
  /\ arg.amount_in.digits = <<1, 0>>
  /\ arg.token_address[3] = "A"
  /\ SubSeq(out[1].inputs[1], 51, 52) = <<1, 0>>

\* The twenty bytes of a valid address, by its hex digits.
AddressBytes(str) ==
  [i \in 1..20 |-> 16 * HexTable[str[2 * i + 1]] + HexTable[str[2 * i + 2]]]

NativeLeg == Rep(20, 0)

\* C28: the leading 20-byte address field of input1 is the token-out
\* address of the swap in both directions: the target token for a buy, the
\* native leg for a sell.
C28_Input1LeadsWithTokenOut ==
  (Encoded /\ ValidArguments /\ arg.trade_type \in {"buy", "sell"}) =>
    SubSeq(out[1].inputs[1], 1, 20) =
      IF arg.trade_type = "buy" THEN AddressBytes(arg.token_address)
      ELSE NativeLeg

\* C29: the command byte is the same exact-input-swap value for both
\* directions, and input2 is hop-count byte, leg 1, leg 2 with the native
\* leg twenty zero bytes: native then token for a buy, token then native
\* for a sell, so that the two encodings of one token differ exactly by
\* the order of the legs.
C29_PathByDirection ==
  (Encoded /\ ValidArguments /\ arg.trade_type \in {"buy", "sell"}) =>
    LET input2 == out[1].inputs[2]
        token == AddressBytes(arg.token_address)
        leg1 == SubSeq(input2, 2, 21)
        leg2 == SubSeq(input2, 22, 41)
    IN /\ out[1].commands = <<11>>
       /\ Len(input2) = 41
       /\ input2[1] = 2
       /\ token # NativeLeg
       /\ arg.trade_type = "buy" => leg1 = NativeLeg /\ leg2 = token
       /\ arg.trade_type = "sell" => leg1 = token /\ leg2 = NativeLeg

\* A sell was encoded: the token is the first leg of its path.
C29_Witness ==
  /\ Encoded /\ ValidArguments
  /\ arg.trade_type = "sell"
  /\ SubSeq(out[1].inputs[2], 2, 21) = AddressBytes(arg.token_address)
  /\ out[1].inputs[2][41] = 0

\* An address string decodes to exactly twenty bytes.
DecodesTo20(str) ==
  LET bytes == to_bytes(From2(str)) IN bytes.ok /\ Len(bytes.val) = 20

\* C30: the encoder fails with an encoding error and returns no encoded
\* call whenever the token or the recipient address does not hex-decode to
\* exactly 20 bytes or the amount is outside [0, 2^256).
C30_MalformedArgumentsRejected ==
  (/\ out # <<>>
   /\ \/ ~DecodesTo20(arg.token_address)
      \/ ~DecodesTo20(arg.wallet_address)
      \/ ~ValidAmount(arg.amount_in)) =>
    out[1].kind = "raised"

(***************************************************************************)
(* The build stage (lines 855-986) as one function of the request and of   *)
(* what the chain answered, applied to one request under two slippages.    *)
(* The HTTP layer hands the slippage over as a float (lines 1467, 1494);   *)
(* it is counted in percent here.                                          *)
(***************************************************************************)
SlippageChoices == {0, 1, 5, 100}

\* What the chain answers to the build stage: the latest block's timestamp,
\* the token's decimals, and which of the stage's calls raised, if any.
ChainAnswers ==
  [ts : BlockTimestamps, d : Decimals, f : 0..Len(BuyCalls)]

\* The transaction the build stage leaves, None when it raised.  A buy is
\* built when the wrapped-native address is not zero (line 868); a sell
\* reads token_contract.functions.allowance first (line 919); anything
\* else is refused (line 978).
build_transaction(r, weth, router, chain) ==
  IF r.trade_type = "buy" /\ weth # ZeroAddress
  THEN (IF chain.f = 0 THEN BuyTransaction(r, weth, router, chain.ts)
        ELSE None)
  ELSE IF r.trade_type = "sell" /\ HasFunction(erc20_abi, "allowance")
       THEN (IF chain.f = 0
             THEN SellTransaction(r, weth, router, chain.ts, chain.d)
             ELSE None)
       ELSE None

SlippageInit ==
  /\ Constructed
  /\ \E a \in Amounts, tt \in TradeTypes, s1 \in SlippageChoices,
        s2 \in SlippageChoices, weth \in {ZeroAddress, WethAddress},
        chain \in ChainAnswers :
       /\ s1 # s2
       /\ arg = [request |-> [private_key |-> "key_ok",
                              token_address |-> "0xt1", amount_in |-> a,
                              trade_type |-> tt],
                 slippages |-> <<s1, s2>>, weth |-> weth, chain |-> chain]

WithSlippage(r, s) ==
  [private_key |-> r.private_key, token_address |-> r.token_address,
   amount_in |-> r.amount_in, trade_type |-> r.trade_type, slippage |-> s]

\* The build stage run once under each of the two slippages, the chain
\* answering the same both times.
BuildUnderEachSlippage ==
  /\ pc = "idle"
  /\ out = <<>>
  /\ out' = [i \in 1..2 |->
              build_transaction(WithSlippage(arg.request, arg.slippages[i]),
                                arg.weth, uniswap_v3_router, arg.chain)]
  /\ UNCHANGED <<service, pc, locals, history, sched, monitoring, arg, inflight,
                 result>>

SlippageNext == BuildUnderEachSlippage

SlippageSpec == SlippageInit /\ [][SlippageNext]_vars

\* C31: slippage has no effect on what is submitted: the build stage run
\* on one request under two different slippages, the chain answering the
\* same, leaves identical transactions, and every swap built has
\* amountOutMinimum = 0 and sqrtPriceLimitX96 = 0.
C31_SlippageHasNoEffect ==
  out # <<>> =>
    /\ out[1] = out[2]
    /\ \A i \in 1..2 :
         out[i] # None => /\ out[i].params.amountOutMinimum = 0
                          /\ out[i].params.sqrtPriceLimitX96 = 0

\* A swap was built under each of two different slippages.
C31_Witness ==
  /\ out # <<>>
  /\ arg.slippages[1] # arg.slippages[2]
  /\ out[1] # None
  /\ out[2] # None

\* C32: the private key is never retained in service state: no entry of the
\* task map, the monitor map or the router cache holds a private key, under
\* any field or as a key of the map.
C32_NoKeyInServiceState ==
  /\ \A t \in DOMAIN router_cache :
       t \notin Keys /\ router_cache[t] \notin Keys
  /\ \A i \in DOMAIN scheduled_tasks :
       /\ "private_key" \notin DOMAIN scheduled_tasks[i]
       /\ scheduled_tasks[i].wallet_address \notin Keys
       /\ scheduled_tasks[i].token_address \notin Keys
       /\ scheduled_tasks[i].raw_transaction \notin Keys
  /\ \A m \in DOMAIN pool_monitors :
       /\ "private_key" \notin DOMAIN pool_monitors[m]
       /\ pool_monitors[m].token_address \notin Keys
       /\ pool_monitors[m].wallet_address \notin Keys

\* A key was handed over and signed with, and the router cache has an entry.
C32_SignedWithKey ==
  /\ pc \in {"send", "wait"}
  /\ req.private_key \in Keys
  /\ router_cache # <<>>

\* A task holding a signed transaction is in the task map.
C32_TaskHeld == scheduled_tasks # <<>>

(***************************************************************************)
(* Calls on request threads.  The HTTP server answers each request on a    *)
(* thread of its own (app.run, line 1583) and the service takes no lock,   *)
(* so the statements of two calls interleave; a thread can be switched     *)
(* between any two reads and writes of an attribute of the service.        *)
(***************************************************************************)
MaxCallers == 2
Callers == 1..MaxCallers

InFlight(op, at) ==
  {c \in DOMAIN inflight : inflight[c].op = op /\ inflight[c].at = at}

\* start_pool_monitor (lines 1158-1171), statement by statement.
\* monitor_id = f"monitor_{self.monitor_counter}" (line 1158)
StartReadCounter ==
  /\ \E c \in Callers \ DOMAIN inflight, auto \in BOOLEAN :
       inflight' = inflight @@
         (c :> [op |-> "start_pool_monitor", at |-> "load",
                monitor_id |-> NewMonitorId(monitor_counter, pool_monitors),
                loaded |-> 0,
                monitor_info |-> [token_address |-> "0xT1",
                                  wallet_address |-> "0xWallet",
                                  threshold |-> 1, auto_trade |-> auto,
                                  active |-> TRUE, last_balance |-> 0]])
  /\ UNCHANGED <<service, pc, locals, history, sched, monitoring, arg, out,
                 result>>

\* self.monitor_counter += 1 (line 1159): the attribute is read ...
StartLoadCounter ==
  /\ \E c \in InFlight("start_pool_monitor", "load") :
       inflight' = [inflight EXCEPT ![c].at = "store",
                                    ![c].loaded = monitor_counter]
  /\ UNCHANGED <<service, pc, locals, history, sched, monitoring, arg, out,
                 result>>

\* ... and what was read, plus one, is written back.
StartStoreCounter ==
  /\ \E c \in InFlight("start_pool_monitor", "store") :
       /\ monitor_counter' = inflight[c].loaded + 1
       /\ inflight' = [inflight EXCEPT ![c].at = "insert"]
  /\ UNCHANGED <<uniswap_v3_router, router_cache, scheduled_tasks,
                 task_counter, timers, pool_monitors, pc, locals, history,
                 sched, monitoring, arg, out, result>>

\* self.pool_monitors[monitor_id] = monitor_info (line 1171), and the
\* success result with the id (1175-1181)
StartInsert ==
  /\ \E c \in InFlight("start_pool_monitor", "insert") :
       LET monitor_id == inflight[c].monitor_id
       IN /\ pool_monitors' =
               [m \in DOMAIN pool_monitors \cup {monitor_id} |->
                  IF m = monitor_id THEN inflight[c].monitor_info
                  ELSE pool_monitors[m]]
          /\ inflight' = [inflight EXCEPT ![c].at = "returned"]
  /\ UNCHANGED <<uniswap_v3_router, router_cache, scheduled_tasks,
                 task_counter, timers, monitor_counter, pc, locals, history,
                 sched, monitoring, arg, out, result>>

ConcurrentStartNext ==
  \/ StartReadCounter
  \/ StartLoadCounter
  \/ StartStoreCounter
  \/ StartInsert

ConcurrentStartSpec == Init /\ [][ConcurrentStartNext]_vars

\* C33: identifier uniqueness under concurrency: the start_pool_monitor
\* calls that have returned obtained pairwise distinct ids, and the monitor
\* each of them created is in the monitor map.
C33_ConcurrentIdsDistinct ==
  LET done == InFlight("start_pool_monitor", "returned")
  IN /\ \A c1 \in done, c2 \in done :
          c1 # c2 => inflight[c1].monitor_id # inflight[c2].monitor_id
     /\ \A c \in done : inflight[c].monitor_id \in DOMAIN pool_monitors
     /\ Cardinality(DOMAIN pool_monitors) = Cardinality(done)

(***************************************************************************)
(* The monitor thread statement by statement (lines 1105-1142), beside     *)
(* start_pool_monitor and stop_pool_monitor on a request thread.  A pass   *)
(* iterates list(self.pool_monitors.items()): it holds the monitor_info    *)
(* objects it found, whether or not they are still in the map.  An object  *)
(* in the map has active = True; stop_pool_monitor clears the flag of the  *)
(* object it removes (lines 1194-1195).  The balance read is a blocking    *)
(* call to the chain, during which the request thread runs.                *)
(***************************************************************************)
\* for monitor_id, monitor_info in list(self.pool_monitors.items())
PassBegin ==
  /\ loop.at = "sleep"
  /\ loop' = [at |-> "poll", left |-> InOrder(DOMAIN pool_monitors),
              objects |-> pool_monitors, stage |-> "test", reading |-> 0,
              late |-> {}]
  /\ UNCHANGED <<service, pc, locals, history, sched, issued, observed,
                 watch, scratch, result>>

\* if monitor_info['active'] (line 1109)
PassTestActive ==
  /\ loop.at = "poll"
  /\ loop.stage = "test"
  /\ loop.left # <<>>
  /\ loop' = IF LiveMonitor(pool_monitors, Head(loop.left))
             THEN [loop EXCEPT !.stage = "read"]
             ELSE [loop EXCEPT !.left = Tail(@)]
  /\ UNCHANGED <<service, pc, locals, history, sched, issued, observed,
                 watch, scratch, result>>

\* balance_result = self.get_token_balance(...) (line 1127); a failure
\* result ends the check (1128), as does an exception (1141)
CheckReadBalance ==
  /\ loop.at = "poll"
  /\ loop.stage = "read"
  /\ \E bal \in Outcomes(Readings) :
       LET monitor_info == loop.objects[Head(loop.left)]
           balance_result ==
             IF IsChecksummed(monitor_info.wallet_address) THEN bal
             ELSE Raised
       IN loop' = IF balance_result.ok
                  THEN [loop EXCEPT !.stage = "update",
                                    !.reading = balance_result.val]
                  ELSE [loop EXCEPT !.stage = "test", !.left = Tail(@)]
  /\ UNCHANGED <<service, pc, locals, history, sched, issued, observed,
                 watch, scratch, result>>

\* Lines 1130-1139: the comparison, the write of last_balance to the
\* monitor_info object and the auto-trade hook.  late records what is done
\* to a monitor that is no longer in the map while no call is in progress
\* on the request thread: stop_pool_monitor has returned.
CheckUpdate ==
  /\ loop.at = "poll"
  /\ loop.stage = "update"
  /\ LET monitor_id == Head(loop.left)
         monitor_info == loop.objects[monitor_id]
         changed == BalanceChanged(loop.reading, monitor_info.last_balance,
                                   monitor_info.threshold)
         stopped == ~LiveMonitor(pool_monitors, monitor_id) /\ pc = "idle"
         done == (IF changed /\ stopped
                  THEN {[monitor_id |-> monitor_id, did |-> "last_balance"]}
                  ELSE {})
                 \cup (IF changed /\ stopped /\ monitor_info.auto_trade
                       THEN {[monitor_id |-> monitor_id, did |-> "auto_trade"]}
                       ELSE {})
     IN /\ pool_monitors' =
             IF changed /\ LiveMonitor(pool_monitors, monitor_id)
             THEN [pool_monitors EXCEPT
                     ![monitor_id].last_balance = loop.reading]
             ELSE pool_monitors
        /\ loop' = [loop EXCEPT
                      !.stage = "test", !.left = Tail(@),
                      !.late = @ \cup done,
                      !.objects[monitor_id].last_balance =
                         IF changed THEN loop.reading ELSE @]
  /\ UNCHANGED <<uniswap_v3_router, router_cache, scheduled_tasks,
                 task_counter, timers, monitor_counter, pc, locals, history,
                 sched, issued, observed, watch, scratch, result>>

\* time.sleep(1) at the end of a pass (line 1111).
PassSleep ==
  /\ loop.at = "poll"
  /\ loop.stage = "test"
  /\ loop.left = <<>>
  /\ loop' = Asleep
  /\ UNCHANGED <<service, pc, locals, history, sched, issued, observed,
                 watch, scratch, result>>

PollNext ==
  \/ StartPoolMonitor
  \/ StopPoolMonitor
  \/ Return
  \/ PassBegin
  \/ PassTestActive
  \/ CheckReadBalance
  \/ CheckUpdate
  \/ PassSleep

PollSpec == Init /\ [][PollNext]_vars

\* C34: the polling loop never observes a monitor mid-removal: once
\* stop_pool_monitor(id) has returned success, the loop performs no further
\* update of that monitor's last_balance and no further invocation of the
\* auto-trade hook for it.
C34_NothingAfterStop == loop.at = "poll" => loop.late = {}

(***************************************************************************)
(* discover_universal_router (lines 341-380) on request threads: the test  *)
(* of the cache (line 345) and the write of the entry (line 372) are       *)
(* separate statements with the construction of a contract object (lines   *)
(* 351-354) between them.                                                  *)
(***************************************************************************)
\* if token_address in self.router_cache: return self.router_cache[...]
DiscoverTestCache ==
  /\ \E c \in Callers \ DOMAIN inflight, token_address \in RegistryTokens :
       LET cached == token_address \in DOMAIN router_cache
       IN inflight' = inflight @@
            (c :> [op |-> "discover_universal_router",
                   at |-> IF cached THEN "returned" ELSE "discover",
                   token_address |-> token_address,
                   path |-> IF cached THEN "cache" ELSE "discovery",
                   router |-> IF cached THEN router_cache[token_address]
                              ELSE "unset"])
  /\ UNCHANGED <<service, pc, locals, history, sched, monitoring, arg, out,
                 result>>

\* Lines 367-375: the configured router, checksummed, is written to the
\* cache under the token address and returned.
DiscoverWriteCache ==
  /\ \E c \in InFlight("discover_universal_router", "discover") :
       LET checksum_router == to_checksum_address(uniswap_v3_router)
           token_address == inflight[c].token_address
       IN /\ router_cache' =
               [t \in DOMAIN router_cache \cup {token_address} |->
                  IF t = token_address THEN checksum_router
                  ELSE router_cache[t]]
          /\ inflight' = [inflight EXCEPT ![c].at = "returned",
                                          ![c].router = checksum_router]
  /\ UNCHANGED <<uniswap_v3_router, scheduled_tasks, task_counter, timers,
                 pool_monitors, monitor_counter, pc, locals, history, sched,
                 monitoring, arg, out, result>>

ConcurrentDiscoverNext ==
  \/ DiscoverTestCache
  \/ DiscoverWriteCache

ConcurrentDiscoverSpec == Init /\ [][ConcurrentDiscoverNext]_vars

\* C35: of the concurrent discover_universal_router calls on one token, at
\* most one executes the discovery path and writes the cache entry, and all
\* of them return the same router.
C35_OneDiscoveryPerToken ==
  LET done == InFlight("discover_universal_router", "returned")
  IN \A c1 \in done, c2 \in done :
       (c1 # c2 /\ inflight[c1].token_address = inflight[c2].token_address)
         => /\ ~(inflight[c1].path = "discovery"
                 /\ inflight[c2].path = "discovery")
            /\ inflight[c1].router = inflight[c2].router

\* The part of C35 that holds: the calls on one token return one router.
C35_SameRouter ==
  LET done == InFlight("discover_universal_router", "returned")
  IN \A c1 \in done, c2 \in done :
       inflight[c1].token_address = inflight[c2].token_address
         => inflight[c1].router = inflight[c2].router

\* C37 (as the specification states it): a schedule_swap call with a
\* schedule time strictly ahead, counts in bounds, a sufficient balance and
\* every chain call returning comes back as a success with a task id and
\* status scheduled, having registered a new task and armed its timer.
C37_SubmissionInOrderSucceeds ==
  SubmissionInOrder =>
    /\ result.kind = "ok"
    /\ result.data.status = "scheduled"
    /\ sched.registered
    /\ issued # <<>>
    /\ issued[Len(issued)] = [kind |-> "task", id |-> result.data.task_id]
    /\ result.data.task_id \in DOMAIN scheduled_tasks
    /\ result.data.task_id \in timers

\* A schedule_swap call returned a failure.
ScheduleFailed ==
  /\ pc = "idle" /\ pc' = "done"
  /\ result'.op = "schedule_swap"
  /\ result'.kind = "err"

\* C38: a schedule_swap call that returns a failure (validation, balance,
\* or a chain call that raised) leaves the task map and the task counter as
\* they were and arms no timer.
C38_FailureRegistersNothing ==
  [][ScheduleFailed => /\ scheduled_tasks' = scheduled_tasks
                       /\ task_counter' = task_counter
                       /\ timers' = timers]_vars

\* A submission that passed validation and the balance pre-check failed in
\* a chain call, and nothing is registered.
C38_Witness ==
  /\ ScheduleDone
  /\ result.kind = "err"
  /\ sched.validated
  /\ sched.precheck # None
  /\ sched.calls_raised
  /\ result.error = "rpc_error"
  /\ task_counter = 0
  /\ scheduled_tasks = <<>>
  /\ timers = {}

\* C39: in a sell that needs an approval the swap is broadcast only if the
\* approval's receipt reports status 1, and an approval mined with status 0
\* ends execute_swap with a failure before any swap is broadcast.
C39_SwapOnlyAfterApprovalSuccess ==
  /\ (req.trade_type = "sell" /\ build_env # None /\ build_env.approval_needed
        /\ "send_raw_transaction" \in Made)
       => approval = "status1"
  /\ approval = "status0" =>
       /\ "send_raw_transaction" \notin Made
       /\ pc = "done" => result.kind = "err"

\* The approval of a sell was broadcast.
C39_ApprovalSent == approval # "none"

\* The swap transaction of this invocation was signed, or handed to the
\* node.
SignedOrBroadcast ==
  \/ "sign_transaction" \in Made
  \/ "send_raw_transaction" \in Made
  \/ tx_hash # "none"

====
